---- MODULE Spec2Model ----
(***************************************************************************)
(* Connectivity monitor: the shadow state of src/src/state.rs, the netlink *)
(* driver of src/src/linux.rs and the IP Helper driver of                  *)
(* src/src/windows.rs, as one state machine.  The platform is fixed in     *)
(* Init, the way the build fixes it.                                       *)
(***************************************************************************)
EXTENDS Integers, Sequences, FiniteSets, TLC

(***************************************************************************)
(* Bounds of the model.                                                    *)
(***************************************************************************)
\* netlink frames the kernel delivers on the change feed during one run
MaxEvents == 2
\* frames delivered after the snapshot in a sequential run
MaxFeed == 2
\* notifications the Windows stack delivers during one run
MaxNotify == 2
\* frames delivered to an empty shadow in a bring-up run
MaxScenario == 3
\* route frames delivered after the snapshot in a route run
MaxRoutes == 3
\* frames the kernel queues for its own changes in a merge run
MaxChanges == 3
\* frames applied to both iterations of the state model in a side-by-side run
MaxIterations == 3

(***************************************************************************)
(* Option<T> is a set with at most one element.                            *)
(***************************************************************************)
NoneOpt == {}
Some(x) == {x}
Unwrap(o) == CHOOSE x \in o : TRUE

(***************************************************************************)
(* ConnectivityState, ordered None < Network < Internet, and Connectivity. *)
(***************************************************************************)
CsNone == 0
CsNetwork == 1
CsInternet == 2
ConnectivityState == {CsNone, CsNetwork, CsInternet}

max(a, b) == IF a >= b THEN a ELSE b

Connectivity(v4, v6) == [ipv4 |-> v4, ipv6 |-> v6]

(***************************************************************************)
(* state.rs: AddressGateway, Interface, Interfaces.                        *)
(* An IpAddr is [fam |-> "V4" | "V6", a |-> id]; a gateway entry is the    *)
(* pair <<address id, priority>>.  Interfaces is a function from the       *)
(* present interface indices to Interface records.                         *)
(***************************************************************************)
IpV4(a) == [fam |-> "V4", a |-> a]
IpV6(a) == [fam |-> "V6", a |-> a]

\* connectivity_state without the (true, true, false) => Network arm
connectivity_state_no_network(addresses, gateways, up) ==
    IF up /\ addresses # {} /\ gateways # {} THEN CsInternet ELSE CsNone

\* AddressGateway::connectivity_state
connectivity_state(addresses, gateways, up) ==
    LET address == addresses # {}
        gateway == gateways # {}
    IN  IF ~up \/ ~address THEN CsNone
        ELSE IF ~gateway THEN CsNetwork
        ELSE CsInternet

\* Interface::new
Interface_new(up) ==
    [up |-> up, v4a |-> {}, v4g |-> {}, v6a |-> {}, v6g |-> {}]

\* Interface::connectivity
Interface_connectivity(i) ==
    Connectivity(connectivity_state(i.v4a, i.v4g, i.up),
                 connectivity_state(i.v6a, i.v6g, i.up))

\* Interfaces::new
Interfaces_new == << >>

RECURSIVE FoldValues(_, _, _)
FoldValues(s, keys, acc) ==
    IF keys = {} THEN acc
    ELSE LET k == CHOOSE x \in keys : TRUE
             c == Interface_connectivity(s[k])
         IN  FoldValues(s, keys \ {k},
                        Connectivity(max(acc.ipv4, c.ipv4), max(acc.ipv6, c.ipv6)))

\* Interfaces::connectivity folding the pooled addresses and gateways of all
\* interfaces instead of the per-interface verdicts
Interfaces_connectivity_pooled(s) ==
    LET up == \E k \in DOMAIN s : s[k].up
    IN  Connectivity(
            connectivity_state(UNION {s[k].v4a : k \in DOMAIN s},
                               UNION {s[k].v4g : k \in DOMAIN s}, up),
            connectivity_state(UNION {s[k].v6a : k \in DOMAIN s},
                               UNION {s[k].v6g : k \in DOMAIN s}, up))

\* Interfaces::connectivity
Interfaces_connectivity(s) == FoldValues(s, DOMAIN s, Connectivity(CsNone, CsNone))

\* HashMap::entry(index).or_insert_with(|| Interface::new(false))
OrInsert(s, index) ==
    IF index \in DOMAIN s THEN s
    ELSE [k \in (DOMAIN s) \cup {index} |->
            IF k = index THEN Interface_new(FALSE) ELSE s[k]]

\* add_link without the `if !loop_back`
add_link_no_filter(s, link) ==
    [OrInsert(s, link[1]) EXCEPT ![link[1]].up = link[3]]

\* add_link storing a fresh Interface::new(carrier) over an existing entry
add_link_replace(s, link) ==
    IF ~link[2]
    THEN [k \in (DOMAIN s) \cup {link[1]} |->
            IF k = link[1] THEN Interface_new(link[3]) ELSE s[k]]
    ELSE s

\* Interfaces::add_link; link is <<index, loop_back, carrier>>
add_link(s, link) ==
    IF ~link[2]
    THEN [OrInsert(s, link[1]) EXCEPT ![link[1]].up = link[3]]
    ELSE s

\* remove_link that keeps the entry and only clears its carrier flag
remove_link_carrier_only(s, link) ==
    IF link[1] \in DOMAIN s THEN [s EXCEPT ![link[1]].up = FALSE] ELSE s

\* Interfaces::remove_link
remove_link(s, link) ==
    [k \in (DOMAIN s) \ {link[1]} |-> s[k]]

\* add_address through entry(index).and_modify(..): an unknown index is skipped
add_address_known_only(s, address_info) ==
    LET index == address_info[1]
        address == address_info[2]
    IN  IF index \notin DOMAIN s THEN s
        ELSE IF address.fam = "V4"
        THEN [s EXCEPT ![index].v4a = @ \cup {address.a}]
        ELSE [s EXCEPT ![index].v6a = @ \cup {address.a}]

\* Interfaces::add_address; address_info is <<index, IpAddr>>
add_address(s, address_info) ==
    LET index == address_info[1]
        address == address_info[2]
        e == OrInsert(s, index)
    IN  IF address.fam = "V4"
        THEN [e EXCEPT ![index].v4a = @ \cup {address.a}]
        ELSE [e EXCEPT ![index].v6a = @ \cup {address.a}]

\* remove_address with the two match arms swapped
remove_address_wrong_family(s, address_info) ==
    LET index == address_info[1]
        address == address_info[2]
    IN  IF index \notin DOMAIN s THEN s
        ELSE IF address.fam = "V4"
        THEN [s EXCEPT ![index].v6a = @ \ {address.a}]
        ELSE [s EXCEPT ![index].v4a = @ \ {address.a}]

\* remove_address through entry(index).or_insert_with(..), as add_address does
remove_address_upsert(s, address_info) ==
    LET index == address_info[1]
        address == address_info[2]
        e == OrInsert(s, index)
    IN  IF address.fam = "V4"
        THEN [e EXCEPT ![index].v4a = @ \ {address.a}]
        ELSE [e EXCEPT ![index].v6a = @ \ {address.a}]

\* remove_address that drops an entry it has left without addresses and gateways
remove_address_prune(s, address_info) ==
    LET index == address_info[1]
        address == address_info[2]
        t == IF index \notin DOMAIN s THEN s
             ELSE IF address.fam = "V4"
             THEN [s EXCEPT ![index].v4a = @ \ {address.a}]
             ELSE [s EXCEPT ![index].v6a = @ \ {address.a}]
    IN  IF index \in DOMAIN t
           /\ t[index].v4a = {} /\ t[index].v6a = {}
           /\ t[index].v4g = {} /\ t[index].v6g = {}
        THEN [k \in (DOMAIN t) \ {index} |-> t[k]]
        ELSE t

\* Interfaces::remove_address
remove_address(s, address_info) ==
    LET index == address_info[1]
        address == address_info[2]
    IN  IF index \notin DOMAIN s THEN s
        ELSE IF address.fam = "V4"
        THEN [s EXCEPT ![index].v4a = @ \ {address.a}]
        ELSE [s EXCEPT ![index].v6a = @ \ {address.a}]

\* add_default_route inserting the entry into the gateway sets of both families
add_default_route_both_families(s, route) ==
    LET index == route[1]
        e == OrInsert(s, index)
    IN  [e EXCEPT ![index].v4g = @ \cup {<<route[2].a, route[3]>>},
                  ![index].v6g = @ \cup {<<route[2].a, route[3]>>}]

\* Interfaces::add_default_route; route is <<index, IpAddr, priority>>
add_default_route(s, route) ==
    LET index == route[1]
        address == route[2]
        priority == route[3]
        e == OrInsert(s, index)
    IN  IF address.fam = "V4"
        THEN [e EXCEPT ![index].v4g = @ \cup {<<address.a, priority>>}]
        ELSE [e EXCEPT ![index].v6g = @ \cup {<<address.a, priority>>}]

\* remove_default_route dropping every entry of the gateway, whatever its priority
remove_default_route_any_priority(s, route) ==
    LET index == route[1]
        address == route[2]
    IN  IF index \notin DOMAIN s THEN s
        ELSE IF address.fam = "V4"
        THEN [s EXCEPT ![index].v4g = {g \in @ : g[1] # address.a}]
        ELSE [s EXCEPT ![index].v6g = {g \in @ : g[1] # address.a}]

\* Interfaces::remove_default_route
remove_default_route(s, route) ==
    LET index == route[1]
        address == route[2]
        priority == route[3]
    IN  IF index \notin DOMAIN s THEN s
        ELSE IF address.fam = "V4"
        THEN [s EXCEPT ![index].v4g = @ \ {<<address.a, priority>>}]
        ELSE [s EXCEPT ![index].v6g = @ \ {<<address.a, priority>>}]

(***************************************************************************)
(* Netlink messages as linux.rs reads them.                                *)
(*  LinkMessage    [index, flags]            flags: set of IFF_* names     *)
(*  AddressMessage [index, family, flags, nlas]                            *)
(*  RouteMessage   [address_family, destination_prefix_length, nlas]       *)
(* An attribute (nla) is the pair <<kind, value>>; an address payload     *)
(* (Vec<u8>) is [len |-> number of bytes, id |-> which address].           *)
(***************************************************************************)
LinkMessage(index, flags) == [index |-> index, flags |-> flags]
AddressMessage(index, family, flags, nlas) ==
    [index |-> index, family |-> family, flags |-> flags, nlas |-> nlas]
RouteMessage(family, dstlen, nlas) ==
    [address_family |-> family, destination_prefix_length |-> dstlen, nlas |-> nlas]
Nla(kind, val) == <<kind, val>>
Bytes(len, id) == [len |-> len, id |-> id]

\* nlas.iter().find_map(..): the first attribute of that kind, if any
find_map(nlas, kind) ==
    LET hits == {i \in 1..Len(nlas) : nlas[i][1] = kind}
    IN  IF hits = {} THEN NoneOpt
        ELSE Some(nlas[CHOOSE i \in hits : \A j \in hits : i <= j][2])

\* vec_to_array::<N> then Ipv4Addr::from / Ipv6Addr::from, by address family
ip_from_bytes(family, bytes) ==
    IF family = "AF_INET"
    THEN (IF bytes.len = 4 THEN Some(IpV4(bytes.id)) ELSE NoneOpt)
    ELSE IF family = "AF_INET6"
    THEN (IF bytes.len = 16 THEN Some(IpV6(bytes.id)) ELSE NoneOpt)
    ELSE NoneOpt

\* parse_link
parse_link(link) ==
    <<link.index, "IFF_LOOPBACK" \in link.flags, "IFF_LOWER_UP" \in link.flags>>

\* parse_address testing PERMANENT in the header flags only
parse_address_header_flags(addr) ==
    LET address == find_map(addr.nlas, "Address")
        flags == addr.flags
    IN  IF address = NoneOpt THEN NoneOpt
        ELSE LET ip_address == ip_from_bytes(addr.family, Unwrap(address))
             IN  IF ip_address = NoneOpt THEN NoneOpt
                 ELSE IF "IFA_F_PERMANENT" \notin flags
                 THEN Some(<<addr.index, Unwrap(ip_address)>>)
                 ELSE NoneOpt

\* parse_address
parse_address(addr) ==
    LET address == find_map(addr.nlas, "Address")
        fl == find_map(addr.nlas, "Flags")
        flags == IF fl = NoneOpt THEN addr.flags ELSE Unwrap(fl) \cup addr.flags
    IN  IF address = NoneOpt THEN NoneOpt
        ELSE LET ip_address == ip_from_bytes(addr.family, Unwrap(address))
             IN  IF ip_address = NoneOpt THEN NoneOpt
                 ELSE IF "IFA_F_PERMANENT" \notin flags
                 THEN Some(<<addr.index, Unwrap(ip_address)>>)
                 ELSE NoneOpt

\* parse_default_route that does not ask for a Priority attribute and takes 0
\* when there is none
parse_default_route_optional_priority(route) ==
    LET oif == find_map(route.nlas, "Oif")
        gateway == find_map(route.nlas, "Gateway")
        priority == find_map(route.nlas, "Priority")
    IN  IF oif = NoneOpt \/ gateway = NoneOpt THEN NoneOpt
        ELSE LET ip_address == ip_from_bytes(route.address_family, Unwrap(gateway))
             IN  IF ip_address = NoneOpt THEN NoneOpt
                 ELSE Some(<<Unwrap(oif), Unwrap(ip_address),
                             IF priority = NoneOpt THEN 0 ELSE Unwrap(priority)>>)

\* parse_default_route
parse_default_route(route) ==
    LET oif == find_map(route.nlas, "Oif")
        gateway == find_map(route.nlas, "Gateway")
        priority == find_map(route.nlas, "Priority")
    IN  IF oif = NoneOpt \/ gateway = NoneOpt \/ priority = NoneOpt THEN NoneOpt
        ELSE LET ip_address == ip_from_bytes(route.address_family, Unwrap(gateway))
             IN  IF ip_address = NoneOpt THEN NoneOpt
                 ELSE Some(<<Unwrap(oif), Unwrap(ip_address), Unwrap(priority)>>)

(***************************************************************************)
(* Frames of the change feed: NetlinkMessage.payload.                      *)
(***************************************************************************)
InnerMessage(variant, msg) ==
    [payload |-> "InnerMessage", body |-> [variant |-> variant, msg |-> msg]]
ErrorFrame(e) == [payload |-> "Error", body |-> e]
OverrunFrame(d) == [payload |-> "Overrun", body |-> d]
OtherFrame == [payload |-> "Done", body |-> "none"]

\* the match on message.payload of check_internet_connectivity (state part)
apply_message(s, message) ==
    IF message.payload # "InnerMessage" THEN s
    ELSE LET v == message.body.variant
             m == message.body.msg
         IN  CASE v = "NewLink" -> add_link(s, parse_link(m))
               [] v = "DelLink" -> remove_link(s, parse_link(m))
               [] v = "NewAddress" ->
                    IF parse_address(m) # NoneOpt
                    THEN add_address(s, Unwrap(parse_address(m))) ELSE s
               [] v = "DelAddress" ->
                    IF parse_address(m) # NoneOpt
                    THEN remove_address(s, Unwrap(parse_address(m))) ELSE s
               [] v = "NewRoute" ->
                    IF parse_default_route(m) # NoneOpt
                    THEN add_default_route(s, Unwrap(parse_default_route(m))) ELSE s
               [] v = "DelRoute" ->
                    IF parse_default_route(m) # NoneOpt
                    THEN remove_default_route(s, Unwrap(parse_default_route(m))) ELSE s
               [] OTHER -> s

\* payload_error without the Overrun arm: the frame falls through to `_ => {}`
payload_error_no_overrun(message) ==
    IF message.payload = "Error" THEN Some([kind |-> "NetlinkError", data |-> message.body])
    ELSE NoneOpt

\* payload_error that treats every payload other than InnerMessage as an error
payload_error_strict(message) ==
    IF message.payload = "Error" THEN Some([kind |-> "NetlinkError", data |-> message.body])
    ELSE IF message.payload = "Overrun" THEN Some([kind |-> "Overrun", data |-> message.body])
    ELSE IF message.payload # "InnerMessage"
    THEN Some([kind |-> "Unexpected", data |-> message.body])
    ELSE NoneOpt

\* the Error and Overrun arms of the match: the error the loop returns, if any
payload_error(message) ==
    IF message.payload = "Error" THEN Some([kind |-> "NetlinkError", data |-> message.body])
    ELSE IF message.payload = "Overrun" THEN Some([kind |-> "Overrun", data |-> message.body])
    ELSE NoneOpt

\* diff_assign reporting a difference whatever the two values are
diff_assign_always(assign, assignee) == <<TRUE, assignee>>

\* diff_assign without its `*assign = assignee`
diff_assign_stale(assign, assignee) ==
    IF assign = assignee THEN <<FALSE, assign>> ELSE <<TRUE, assign>>

\* diff_assign: <<returned bool, value of *assign afterwards>>
diff_assign(assign, assignee) ==
    IF assign = assignee THEN <<FALSE, assign>> ELSE <<TRUE, assignee>>

(***************************************************************************)
(* Snapshot loops: get_links, get_addresses, get_default_routes fold the   *)
(* rows of one dump into the state.                                        *)
(***************************************************************************)
RECURSIVE get_links(_, _)
get_links(s, rows) ==
    IF rows = << >> THEN s
    ELSE get_links(add_link(s, parse_link(Head(rows))), Tail(rows))

RECURSIVE get_addresses(_, _)
get_addresses(s, rows) ==
    IF rows = << >> THEN s
    ELSE get_addresses(
            IF parse_address(Head(rows)) # NoneOpt
            THEN add_address(s, Unwrap(parse_address(Head(rows)))) ELSE s,
            Tail(rows))

RECURSIVE get_default_routes(_, _)
get_default_routes(s, rows) ==
    IF rows = << >> THEN s
    ELSE get_default_routes(
            IF parse_default_route(Head(rows)) # NoneOpt
            THEN add_default_route(s, Unwrap(parse_default_route(Head(rows)))) ELSE s,
            Tail(rows))

(***************************************************************************)
(* windows.rs: the three IP Helper tables and connectivity_from_system.    *)
(*  MIB_IF_ROW2              [InterfaceIndex, hardware, Type, OperStatus]  *)
(*  MIB_UNICASTIPADDRESS_ROW [InterfaceIndex, family, ValidLifetime]       *)
(*  MIB_IPFORWARD_ROW2       [InterfaceIndex, PrefixLength, prefix_zero,   *)
(*                            NextHop]                                     *)
(* hardware is bit 0 of InterfaceAndOperStatusFlags; prefix_zero says that *)
(* DestinationPrefix.Prefix equals the zeroed SOCKADDR_INET of its family. *)
(* Iterator::filter over a table is SelectSeq.                             *)
(***************************************************************************)
IfRow(index, hardware, type, oper) ==
    [InterfaceIndex |-> index, hardware |-> hardware, Type |-> type, OperStatus |-> oper]
AddrRow(index, family, lifetime) ==
    [InterfaceIndex |-> index, family |-> family, ValidLifetime |-> lifetime]
RouteRow(index, plen, pzero, nexthop) ==
    [InterfaceIndex |-> index, PrefixLength |-> plen, prefix_zero |-> pzero,
     NextHop |-> nexthop]

\* the match on (addresses.next(), default_routes.next()) for one family
family_state(addresses, routes) ==
    IF addresses = << >> THEN CsNone
    ELSE IF routes = << >> THEN CsNetwork
    ELSE CsInternet

RECURSIVE reduce(_, _)
reduce(acc, rest) ==
    IF rest = << >> THEN acc
    ELSE reduce(Connectivity(max(acc.ipv4, Head(rest).ipv4),
                             max(acc.ipv6, Head(rest).ipv6)), Tail(rest))

\* connectivity_from_system without the test of the hardware bit
connectivity_from_system_any_hardware(t) ==
    LET IsDefault(route) == route.PrefixLength = 0 /\ route.prefix_zero
        default_routes == SelectSeq(t.routes, IsDefault)
        Counts(interface) ==
            /\ interface.Type # "IF_TYPE_SOFTWARE_LOOPBACK"
            /\ interface.OperStatus = "IfOperStatusUp"
        interfaces == SelectSeq(t.interfaces, Counts)
        OfInterface(interface) ==
            LET Mine(row) == row.InterfaceIndex = interface.InterfaceIndex
                A4(row) == row.family = "AF_INET"
                A6(row) == row.family = "AF_INET6"
                R4(row) == row.NextHop = "AF_INET"
                R6(row) == row.NextHop = "AF_INET6"
                interface_addresses == SelectSeq(t.addresses, Mine)
                interface_default_routes == SelectSeq(default_routes, Mine)
            IN  Connectivity(
                    family_state(SelectSeq(interface_addresses, A4),
                                 SelectSeq(interface_default_routes, R4)),
                    family_state(SelectSeq(interface_addresses, A6),
                                 SelectSeq(interface_default_routes, R6)))
        mapped == [i \in 1..Len(interfaces) |-> OfInterface(interfaces[i])]
    IN  IF mapped = << >> THEN Connectivity(CsNone, CsNone)
        ELSE reduce(Head(mapped), Tail(mapped))

\* connectivity_from_system, given the three tables it reads
connectivity_from_system(t) ==
    LET IsDefault(route) == route.PrefixLength = 0 /\ route.prefix_zero
        default_routes == SelectSeq(t.routes, IsDefault)
        Counts(interface) ==
            interface.hardware
            /\ interface.Type # "IF_TYPE_SOFTWARE_LOOPBACK"
            /\ interface.OperStatus = "IfOperStatusUp"
        interfaces == SelectSeq(t.interfaces, Counts)
        OfInterface(interface) ==
            LET Mine(row) == row.InterfaceIndex = interface.InterfaceIndex
                A4(row) == row.family = "AF_INET"
                A6(row) == row.family = "AF_INET6"
                R4(row) == row.NextHop = "AF_INET"
                R6(row) == row.NextHop = "AF_INET6"
                interface_addresses == SelectSeq(t.addresses, Mine)
                interface_default_routes == SelectSeq(default_routes, Mine)
            IN  Connectivity(
                    family_state(SelectSeq(interface_addresses, A4),
                                 SelectSeq(interface_default_routes, R4)),
                    family_state(SelectSeq(interface_addresses, A6),
                                 SelectSeq(interface_default_routes, R6)))
        mapped == [i \in 1..Len(interfaces) |-> OfInterface(interfaces[i])]
    IN  IF mapped = << >> THEN Connectivity(CsNone, CsNone)
        ELSE reduce(Head(mapped), Tail(mapped))

(***************************************************************************)
(* Inputs of the model: kernel dumps for the snapshot, frames for the      *)
(* change feed, table contents for the Windows stack.                      *)
(***************************************************************************)
lo == LinkMessage(1, {"IFF_UP", "IFF_LOOPBACK", "IFF_LOWER_UP"})
eth(k, carrier) ==
    LinkMessage(k, IF carrier THEN {"IFF_UP", "IFF_LOWER_UP"} ELSE {"IFF_UP"})
addr4(k) == AddressMessage(k, "AF_INET", {}, <<Nla("Address", Bytes(4, 1))>>)
addr4perm(k) ==
    AddressMessage(k, "AF_INET", {"IFA_F_PERMANENT"},
                   <<Nla("Address", Bytes(4, 2)), Nla("Flags", {"IFA_F_PERMANENT"})>>)
addr6(k) ==
    AddressMessage(k, "AF_INET6", {}, <<Nla("Flags", {}), Nla("Address", Bytes(16, 1))>>)
route4(k) ==
    RouteMessage("AF_INET", 0,
                 <<Nla("Gateway", Bytes(4, 9)), Nla("Oif", k), Nla("Priority", 100)>>)
route6(k) ==
    RouteMessage("AF_INET6", 0,
                 <<Nla("Oif", k), Nla("Gateway", Bytes(16, 9)), Nla("Priority", 100)>>)

KernelDump(links, addrs, routes4, routes6) ==
    [links |-> links, addrs |-> addrs, routes4 |-> routes4, routes6 |-> routes6]

\* what the kernel answers to the four dump requests
KernelConfigs ==
    { KernelDump(<<lo>>, <<addr4perm(1)>>, << >>, << >>),
      KernelDump(<<eth(1, FALSE)>>, <<addr4(1)>>, << >>, << >>),
      KernelDump(<<eth(1, TRUE)>>, <<addr4(1)>>, << >>, << >>),
      KernelDump(<<eth(1, TRUE)>>, <<addr4(1), addr6(1)>>, <<route4(1)>>, << >>) }

\* frames the kernel may put on the change feed
FeedFrames ==
    { InnerMessage("NewLink", eth(1, TRUE)),
      InnerMessage("NewLink", eth(1, FALSE)),
      InnerMessage("DelLink", eth(1, FALSE)),
      InnerMessage("NewAddress", addr4(1)),
      InnerMessage("DelAddress", addr4(1)),
      InnerMessage("NewRoute", route4(1)),
      InnerMessage("DelRoute", route4(1)) }
    \cup { InnerMessage("NewLink", lo),
           InnerMessage("NewNeighbour", "none"),
           ErrorFrame("e1"),
           OverrunFrame("d1"),
           OtherFrame }

\* the multicast groups new() joins, in order
groups == <<"RTNLGRP_LINK", "RTNLGRP_IPV4_IFADDR", "RTNLGRP_IPV6_IFADDR",
            "RTNLGRP_IPV4_ROUTE", "RTNLGRP_IPV6_ROUTE">>

\* the group a frame is multicast on ("" for frames of the socket itself)
FrameGroup(f) ==
    IF f.payload # "InnerMessage" THEN ""
    ELSE LET v == f.body.variant
             m == f.body.msg
         IN  CASE v \in {"NewLink", "DelLink"} -> "RTNLGRP_LINK"
               [] v \in {"NewAddress", "DelAddress"} ->
                    IF m.family = "AF_INET" THEN "RTNLGRP_IPV4_IFADDR"
                    ELSE "RTNLGRP_IPV6_IFADDR"
               [] v \in {"NewRoute", "DelRoute"} ->
                    IF m.address_family = "AF_INET" THEN "RTNLGRP_IPV4_ROUTE"
                    ELSE "RTNLGRP_IPV6_ROUTE"
               [] OTHER -> ""

WinTables(interfaces, addresses, routes) ==
    [interfaces |-> interfaces, addresses |-> addresses, routes |-> routes]

WinLoopback == IfRow(1, FALSE, "IF_TYPE_SOFTWARE_LOOPBACK", "IfOperStatusUp")
WinEth(oper) == IfRow(2, TRUE, "IF_TYPE_ETHERNET_CSMACD", oper)

\* contents of the three tables the Windows stack may have
WinSystems ==
    { WinTables(<<WinLoopback>>, <<AddrRow(1, "AF_INET", "infinite")>>, << >>),
      WinTables(<<WinLoopback, WinEth("IfOperStatusDown")>>,
                <<AddrRow(2, "AF_INET", "finite")>>, << >>),
      WinTables(<<WinLoopback, WinEth("IfOperStatusUp")>>,
                <<AddrRow(2, "AF_INET", "finite")>>, << >>),
      WinTables(<<WinLoopback, WinEth("IfOperStatusUp")>>,
                <<AddrRow(2, "AF_INET", "finite"), AddrRow(2, "AF_INET6", "finite")>>,
                <<RouteRow(2, 0, TRUE, "AF_INET"), RouteRow(2, 64, FALSE, "AF_INET6")>>) }

\* MIB_NOTIFICATION_TYPE values a callback may be called with
NotificationTypes ==
    {"MibParameterNotification", "MibAddInstance", "MibDeleteInstance",
     "MibInitialNotification", "other"}

Threads == 1..MaxNotify

(***************************************************************************)
(* Inputs of the sequential runs: one consumer that keeps the receiver,    *)
(* frames delivered one at a time.  Key 1 is only ever announced as        *)
(* loopback, keys 2 and 3 are ordinary interfaces.                         *)
(***************************************************************************)
loopback(k) == LinkMessage(k, {"IFF_UP", "IFF_LOOPBACK", "IFF_LOWER_UP"})
\* PERMANENT in the header flags only / in the Flags attribute only
addr4permHdr(k) ==
    AddressMessage(k, "AF_INET", {"IFA_F_PERMANENT"}, <<Nla("Address", Bytes(4, 1))>>)
addr4permNla(k) ==
    AddressMessage(k, "AF_INET", {},
                   <<Nla("Address", Bytes(4, 1)), Nla("Flags", {"IFA_F_PERMANENT"})>>)
\* no Address attribute
addrNoAttr(k) == AddressMessage(k, "AF_INET", {}, <<Nla("Label", "eth")>>)
\* a route to 10.0.7.0/24 via a gateway, and a default route without a gateway
route4net(k) ==
    RouteMessage("AF_INET", 24,
                 <<Nla("Destination", Bytes(4, 7)), Nla("Gateway", Bytes(4, 9)),
                   Nla("Oif", k), Nla("Priority", 100)>>)
route4nogw(k) == RouteMessage("AF_INET", 0, <<Nla("Oif", k), Nla("Priority", 100)>>)
\* the default route of route4(k) announced with another metric
route4metric(k) ==
    RouteMessage("AF_INET", 0,
                 <<Nla("Gateway", Bytes(4, 9)), Nla("Oif", k), Nla("Priority", 200)>>)

StateDumps ==
    { KernelDump(<< >>, << >>, << >>, << >>),
      KernelDump(<<lo, eth(2, TRUE)>>, <<addr4perm(1), addr4(2)>>, << >>, << >>),
      KernelDump(<<lo, eth(2, TRUE)>>, <<addr4(2), addr6(2)>>, <<route4(2)>>,
                 <<route6(2)>>),
      KernelDump(<<eth(2, TRUE)>>, <<addr4(2)>>, <<route4net(2)>>, << >>) }

LinkFrames ==
    { InnerMessage("NewLink", eth(2, TRUE)), InnerMessage("NewLink", eth(2, FALSE)),
      InnerMessage("DelLink", eth(2, FALSE)), InnerMessage("NewLink", eth(3, TRUE)),
      InnerMessage("NewLink", lo), InnerMessage("DelLink", lo),
      InnerMessage("DelLink", loopback(2)) }
AddressFrames ==
    { InnerMessage("NewAddress", addr4(2)), InnerMessage("DelAddress", addr4(2)),
      InnerMessage("NewAddress", addr6(2)), InnerMessage("DelAddress", addr6(2)),
      InnerMessage("NewAddress", addr4(1)),
      InnerMessage("NewAddress", addr4permHdr(2)),
      InnerMessage("NewAddress", addr4permNla(2)),
      InnerMessage("DelAddress", addr4permHdr(2)),
      InnerMessage("NewAddress", addr4perm(3)),
      InnerMessage("NewAddress", addrNoAttr(3)) }
RouteFrames ==
    { InnerMessage("NewRoute", route4(2)), InnerMessage("DelRoute", route4(2)),
      InnerMessage("NewRoute", route6(2)), InnerMessage("DelRoute", route6(2)),
      InnerMessage("NewRoute", route4(3)), InnerMessage("NewRoute", route4(1)),
      InnerMessage("NewRoute", route4net(2)), InnerMessage("NewRoute", route4nogw(3)),
      InnerMessage("NewRoute", route4metric(2)),
      InnerMessage("DelRoute", route4metric(2)) }
StateFrames == LinkFrames \cup AddressFrames \cup RouteFrames

\* the sequences whose elements, in this order, are the members of a subset of S
RECURSIVE SubSeqs(_)
SubSeqs(q) ==
    IF q = << >> THEN {<< >>}
    ELSE LET rest == SubSeqs(Tail(q))
         IN  rest \cup {<<Head(q)>> \o r : r \in rest}

WinAddrRows ==
    <<AddrRow(2, "AF_INET", "finite"), AddrRow(2, "AF_INET", "infinite"),
      AddrRow(2, "AF_INET6", "finite"), AddrRow(2, "AF_INET6", "infinite")>>
WinRouteRows ==
    <<RouteRow(2, 0, TRUE, "AF_INET"), RouteRow(2, 0, TRUE, "AF_INET6"),
      RouteRow(2, 24, FALSE, "AF_INET"), RouteRow(2, 0, FALSE, "AF_INET6")>>
\* one more interface, of every combination of hardware bit, type and status,
\* with a v4 address and a v4 default route
WinAttributeSpace ==
    { WinTables(<<WinLoopback, IfRow(3, hardware, type, oper)>>,
                <<AddrRow(3, "AF_INET", "finite")>>, <<RouteRow(3, 0, TRUE, "AF_INET")>>) :
        hardware \in BOOLEAN,
        type \in {"IF_TYPE_ETHERNET_CSMACD", "IF_TYPE_IEEE80211",
                  "IF_TYPE_SOFTWARE_LOOPBACK"},
        oper \in {"IfOperStatusUp", "IfOperStatusDown", "IfOperStatusDormant"} }
WinTableSpace ==
    { WinTables(<<WinLoopback, WinEth(oper)>>, a, r) :
        oper \in {"IfOperStatusUp", "IfOperStatusDown"},
        a \in SubSeqs(WinAddrRows), r \in SubSeqs(WinRouteRows) }
    \cup WinAttributeSpace

(***************************************************************************)
(* lib.rs: the first iteration of the state model.  InterfacesState takes  *)
(* the netlink messages themselves; an IpAddress is the Vec<u8> of the     *)
(* attribute, the family is an IpVersion ("V4" | "V6"), and the verdict is *)
(* one of None, IpV4, IpV6, All.                                           *)
(***************************************************************************)
\* lib.rs InterfaceState::new
lib_InterfaceState_new(up) ==
    [up |-> up, v4a |-> {}, v4g |-> {}, v6a |-> {}, v6g |-> {}]

\* lib.rs InterfacesState::new
lib_InterfacesState_new == << >>

\* lib.rs: self.state.entry(index).or_insert_with(|| InterfaceState::new(false))
lib_or_insert(s, index) ==
    IF index \in DOMAIN s THEN s
    ELSE [k \in (DOMAIN s) \cup {index} |->
            IF k = index THEN lib_InterfaceState_new(FALSE) ELSE s[k]]

\* lib.rs InterfacesState::internet_connectivity
lib_internet_connectivity(s) ==
    LET ipv4 == \E k \in DOMAIN s : s[k].up /\ s[k].v4a # {} /\ s[k].v4g # {}
        ipv6 == \E k \in DOMAIN s : s[k].up /\ s[k].v6a # {} /\ s[k].v6g # {}
    IN  IF ipv4 /\ ipv6 THEN "All"
        ELSE IF ipv4 THEN "IpV4"
        ELSE IF ipv6 THEN "IpV6"
        ELSE "None"

\* lib.rs parse_address
lib_parse_address(addr) ==
    LET fl == find_map(addr.nlas, "Flags")
        flags == IF fl = NoneOpt THEN addr.flags ELSE Unwrap(fl) \cup addr.flags
    IN  IF "IFA_F_PERMANENT" \notin flags
        THEN LET address == find_map(addr.nlas, "Address")
             IN  IF address # NoneOpt
                 THEN LET ip_version == IF addr.family = "AF_INET" THEN "V4" ELSE "V6"
                      IN  Some(<<addr.index, ip_version, Unwrap(address)>>)
                 ELSE NoneOpt
        ELSE NoneOpt

\* lib.rs parse_default_route
lib_parse_default_route(route) ==
    LET oif == find_map(route.nlas, "Oif")
        gateway == find_map(route.nlas, "Gateway")
        priority == find_map(route.nlas, "Priority")
    IN  IF oif # NoneOpt /\ gateway # NoneOpt /\ priority # NoneOpt
        THEN LET ip_version == IF route.address_family = "AF_INET" THEN "V4" ELSE "V6"
             IN  Some(<<Unwrap(oif), ip_version, Unwrap(gateway), Unwrap(priority)>>)
        ELSE NoneOpt

\* lib.rs InterfacesState::add_link
lib_add_link(s, link) ==
    IF "IFF_LOOPBACK" \notin link.flags
    THEN [lib_or_insert(s, link.index) EXCEPT
            ![link.index].up = ("IFF_LOWER_UP" \in link.flags)]
    ELSE s

\* lib.rs InterfacesState::remove_link
lib_remove_link(s, link) ==
    IF "IFF_LOOPBACK" \notin link.flags
    THEN [k \in (DOMAIN s) \ {link.index} |-> s[k]]
    ELSE s

\* lib.rs InterfacesState::add_address
lib_add_address(s, address) ==
    LET p == lib_parse_address(address)
    IN  IF p = NoneOpt THEN s
        ELSE LET index == Unwrap(p)[1]
                 ip_version == Unwrap(p)[2]
                 a == Unwrap(p)[3]
             IN  IF ip_version = "V4"
                 THEN [lib_or_insert(s, index) EXCEPT ![index].v4a = @ \cup {a}]
                 ELSE [lib_or_insert(s, index) EXCEPT ![index].v6a = @ \cup {a}]

\* lib.rs InterfacesState::remove_address
lib_remove_address(s, address) ==
    LET p == lib_parse_address(address)
    IN  IF p = NoneOpt THEN s
        ELSE LET index == Unwrap(p)[1]
                 ip_version == Unwrap(p)[2]
                 a == Unwrap(p)[3]
             IN  IF index \notin DOMAIN s THEN s
                 ELSE IF ip_version = "V4"
                 THEN [s EXCEPT ![index].v4a = @ \ {a}]
                 ELSE [s EXCEPT ![index].v6a = @ \ {a}]

\* lib.rs InterfacesState::add_default_route
lib_add_default_route(s, route) ==
    LET p == lib_parse_default_route(route)
    IN  IF p = NoneOpt THEN s
        ELSE LET index == Unwrap(p)[1]
                 ip_version == Unwrap(p)[2]
                 g == <<Unwrap(p)[3], Unwrap(p)[4]>>
             IN  IF ip_version = "V4"
                 THEN [lib_or_insert(s, index) EXCEPT ![index].v4g = @ \cup {g}]
                 ELSE [lib_or_insert(s, index) EXCEPT ![index].v6g = @ \cup {g}]

\* lib.rs InterfacesState::remove_default_route
lib_remove_default_route(s, route) ==
    LET p == lib_parse_default_route(route)
    IN  IF p = NoneOpt THEN s
        ELSE LET index == Unwrap(p)[1]
                 ip_version == Unwrap(p)[2]
                 g == <<Unwrap(p)[3], Unwrap(p)[4]>>
             IN  IF index \notin DOMAIN s THEN s
                 ELSE IF ip_version = "V4"
                 THEN [s EXCEPT ![index].v4g = @ \ {g}]
                 ELSE [s EXCEPT ![index].v6g = @ \ {g}]

\* lib.rs get_links: add_link for every row of the dump
RECURSIVE lib_get_links(_, _)
lib_get_links(s, links) ==
    IF links = << >> THEN s
    ELSE lib_get_links(lib_add_link(s, Head(links)), Tail(links))

\* lib.rs get_addresses: add_address for every row of the dump
RECURSIVE lib_get_addresses(_, _)
lib_get_addresses(s, addresses) ==
    IF addresses = << >> THEN s
    ELSE lib_get_addresses(lib_add_address(s, Head(addresses)), Tail(addresses))

\* lib.rs get_default_routes: add_default_route for every row of the dump
RECURSIVE lib_get_default_routes(_, _)
lib_get_default_routes(s, routes) ==
    IF routes = << >> THEN s
    ELSE lib_get_default_routes(lib_add_default_route(s, Head(routes)), Tail(routes))

\* lib.rs check_internet_connectivity: the match on message.payload (state part)
lib_apply_message(s, message) ==
    IF message.payload # "InnerMessage" THEN s
    ELSE LET v == message.body.variant
             m == message.body.msg
         IN  CASE v = "NewLink" -> lib_add_link(s, m)
               [] v = "DelLink" -> lib_remove_link(s, m)
               [] v = "NewAddress" -> lib_add_address(s, m)
               [] v = "DelAddress" -> lib_remove_address(s, m)
               [] v = "NewRoute" -> lib_add_default_route(s, m)
               [] v = "DelRoute" -> lib_remove_default_route(s, m)
               [] OTHER -> s

\* lib.rs check_internet_connectivity: the state after the four dumps
lib_initial_state(k) ==
    lib_get_default_routes(
        lib_get_default_routes(
            lib_get_addresses(lib_get_links(lib_InterfacesState_new, k.links), k.addrs),
            k.routes4),
        k.routes6)

(***************************************************************************)
(* state/mod.rs: the second iteration; its map and mutations are those of  *)
(* state.rs, its per-family level is computed in two steps.                *)
(***************************************************************************)
\* state/mod.rs IpState::connectivity_state
IpState_connectivity_state(addresses, gateways, up) ==
    LET addr == up /\ addresses # {}
        addr_route == addr /\ gateways # {}
    IN  IF ~addr THEN CsNone
        ELSE IF ~addr_route THEN CsNetwork
        ELSE CsInternet

(***************************************************************************)
(* State.                                                                  *)
(***************************************************************************)
VARIABLES
    platform,      \* "linux" | "windows": the target_os of the build
    kernel,        \* Linux: the dumps the kernel answers with
    kernelHad,     \* history: the verdicts of the configurations the kernel has had
    tables,        \* Windows: the current contents of the three tables
    ctor,          \* position / outcome of new()
    joined,        \* Linux: number of multicast groups joined so far
    pc,            \* position of the driver future
    state,         \* Linux: the Interfaces map of check_internet_connectivity
    connectivity,  \* Linux: the local `connectivity` (last verdict)
    cur,           \* Linux: the frame select! has just yielded (Option)
    messages,      \* Linux: frames queued on the `messages` stream
    chan,          \* verdicts sent on the channel and not yet received
    rx,            \* "none" | "ctor" | "open" | "dropped": the receiver
    txAlive,       \* some sender of the channel is alive
    result,        \* result of the driver future
    sent,          \* history: every verdict successfully sent
    received,      \* history: every verdict the receiver yielded
    rxSawClose,    \* the receiver's recv() has returned None
    arrived,       \* history: every frame put on the change feed
    applied,       \* history: every frame the driver ran through its match
    libState,      \* lib.rs: the InterfacesState map of the first iteration
    stored,        \* Windows: SenderState.state
    registered,    \* Windows: the change notification is registered
    cb,            \* Windows: the callback invocations, one per thread
    stateLock,     \* Windows: owner of the SenderState.state mutex (0: free)
    txLock,        \* Windows: owner of the SenderState.tx mutex (0: free)
    notified       \* Windows: number of notifications delivered

linuxVars ==
    <<kernel, kernelHad, joined, state, connectivity, cur, messages, arrived, applied,
      libState>>
winVars == <<tables, stored, registered, cb, stateLock, txLock, notified>>
chanVars == <<chan, sent>>
rxVars == <<rx, received, rxSawClose>>
vars == <<platform, ctor, pc, txAlive, result, linuxVars, winVars, chanVars, rxVars>>

Pending == [kind |-> "Pending", data |-> ""]
Ok == [kind |-> "Ok", data |-> ""]
Err(kind, data) == [kind |-> kind, data |-> data]

\* a callback invocation: its position, its new_connectivity and what
\* handle_connectivity_changed returned ("none": Ok(()), "tables" and "send": the
\* Err that is logged, "freed": it ran against a freed SenderState)
IdleCb ==
    [pc |-> "idle", new |-> Connectivity(CsNone, CsNone), res |-> "none"]
\* an invocation that has returned: its arguments and locals are gone
ReturnedCb == [IdleCb EXCEPT !.pc = "returned"]
\* the owner of a mutex that is neither free nor a callback thread
DriverOwner == MaxNotify + 1

Init ==
    /\ platform \in {"linux", "windows"}
    /\ kernel \in (IF platform = "linux" THEN KernelConfigs
                   ELSE {KernelDump(<< >>, << >>, << >>, << >>)})
    /\ kernelHad = {}
    /\ libState = lib_InterfacesState_new
    /\ tables \in (IF platform = "windows" THEN WinSystems
                   ELSE {WinTables(<< >>, << >>, << >>)})
    /\ ctor = "init"
    /\ joined = 0
    /\ pc = "unstarted"
    /\ state = Interfaces_new
    /\ connectivity = Connectivity(CsNone, CsNone)
    /\ cur = NoneOpt
    /\ messages = << >>
    /\ chan = << >>
    /\ rx = "none"
    /\ txAlive = FALSE
    /\ result = Pending
    /\ sent = << >>
    /\ received = << >>
    /\ rxSawClose = FALSE
    /\ arrived = << >>
    /\ applied = << >>
    /\ stored = Connectivity(CsNone, CsNone)
    /\ registered = FALSE
    /\ cb = [t \in Threads |-> IdleCb]
    /\ stateLock = 0
    /\ txLock = 0
    /\ notified = 0

(***************************************************************************)
(* The verdict channel (tokio unbounded mpsc).                             *)
(***************************************************************************)
\* new() has returned Err(..)
CtorFailed ==
    ctor \in {"err_connection", "err_membership", "err_tables", "err_send", "err_register"}

\* UnboundedSender::send succeeds while the receiver is neither closed nor dropped
CanSend == rx \in {"ctor", "open"}

\* Terminate with the sender outliving the driver future
Terminate_keep_tx(res) ==
    /\ pc' = "done"
    /\ result' = res
    /\ txAlive' = txAlive

\* the driver future returns `res`; its locals (the sender among them) are dropped
Terminate(res) ==
    /\ pc' = "done"
    /\ result' = res
    /\ txAlive' = FALSE

(***************************************************************************)
(* linux.rs: new().                                                        *)
(***************************************************************************)
\* let (mut conn, handle, messages) = new_connection()?;
new_connection ==
    /\ platform = "linux"
    /\ ctor = "init"
    /\ \/ ctor' = "joining"
       \/ ctor' = "err_connection"
    /\ UNCHANGED <<platform, pc, txAlive, result, linuxVars, winVars, chanVars, rxVars>>

\* add_membership without the `?`: a failed join is noted and new() carries on to
\* build the channel and hand out the pair
add_membership_continue ==
    /\ platform = "linux"
    /\ ctor = "joining"
    /\ joined < Len(groups)
    /\ \/ /\ joined' = joined + 1
          /\ UNCHANGED <<ctor, pc, txAlive, rx>>
       \/ /\ joined' = joined
          /\ ctor' = "err_membership"
          /\ rx' = "open"
          /\ txAlive' = TRUE
          /\ pc' = "get_links"
    /\ UNCHANGED <<platform, result, kernel, kernelHad, libState, state, connectivity, cur,
                   messages, arrived, applied, winVars, chanVars, received, rxSawClose>>

\* conn.socket_mut().socket_mut().add_membership(group)?;  once per group
add_membership ==
    /\ platform = "linux"
    /\ ctor = "joining"
    /\ joined < Len(groups)
    /\ \/ joined' = joined + 1 /\ ctor' = ctor
       \/ joined' = joined /\ ctor' = "err_membership"
    /\ UNCHANGED <<platform, pc, txAlive, result, kernel, kernelHad, libState,
                   state, connectivity, cur,
                   messages, arrived, applied, winVars, chanVars, rxVars>>

\* unbounded_channel(); the checker and driver futures are built; Ok((driver, rx))
new_return ==
    /\ platform = "linux"
    /\ ctor = "joining"
    /\ joined = Len(groups)
    /\ ctor' = "ok"
    /\ rx' = "open"
    /\ txAlive' = TRUE
    /\ pc' = "get_links"
    /\ UNCHANGED <<platform, result, linuxVars, winVars, chanVars, received, rxSawClose>>

\* the kernel multicasts a frame; the socket queues it for `messages`
Joined(g) == g = "" \/ \E i \in 1..joined : groups[i] = g

kernel_event ==
    /\ platform = "linux"
    /\ ctor \in {"joining", "ok"}
    /\ pc # "done"
    /\ Len(arrived) < MaxEvents
    /\ \E f \in FeedFrames :
          /\ Joined(FrameGroup(f))
          /\ messages' = Append(messages, f)
          /\ arrived' = Append(arrived, f)
    /\ UNCHANGED <<platform, ctor, pc, txAlive, result, kernel, kernelHad, libState, joined, state,
                   connectivity, cur, applied, winVars, chanVars, rxVars>>

(***************************************************************************)
(* linux.rs: check_internet_connectivity, one action per stretch between   *)
(* two points where another task can run.                                  *)
(***************************************************************************)
\* SnapshotStep that publishes the verdict of what was read so far before it
\* returns the error of a failed request
SnapshotStep_publish_partial(here, next, table, after) ==
    /\ platform = "linux"
    /\ pc = here
    /\ \/ /\ state' = after
          /\ pc' = next
          /\ UNCHANGED <<result, txAlive, chanVars>>
       \/ /\ Terminate(Err("RequestError", table))
          /\ chan' = IF CanSend THEN Append(chan, Interfaces_connectivity(state)) ELSE chan
          /\ sent' = IF CanSend THEN Append(sent, Interfaces_connectivity(state)) ELSE sent
          /\ UNCHANGED state
    /\ UNCHANGED <<platform, ctor, kernel, kernelHad, libState, joined, connectivity, cur, messages,
                   arrived, applied, winVars, rxVars>>

\* one dump request: the rows are folded into the state, or the request fails
SnapshotStep(here, next, table, after) ==
    /\ platform = "linux"
    /\ pc = here
    /\ \/ /\ state' = after
          /\ pc' = next
          /\ UNCHANGED <<result, txAlive>>
       \/ /\ Terminate(Err("RequestError", table))
          /\ UNCHANGED state
    /\ UNCHANGED <<platform, ctor, kernel, kernelHad, libState, joined, connectivity, cur, messages,
                   arrived, applied, winVars, chanVars, rxVars>>

\* get_links(&handle, &mut state).await?;
ci_get_links ==
    SnapshotStep("get_links", "get_addresses", "links", get_links(state, kernel.links))

\* get_addresses(&handle, &mut state).await?;
ci_get_addresses ==
    SnapshotStep("get_addresses", "get_routes_v4", "addresses",
                 get_addresses(state, kernel.addrs))

\* get_default_routes(&handle, IpVersion::V4, &mut state).await?;
ci_get_routes_v4 ==
    SnapshotStep("get_routes_v4", "get_routes_v6", "routes_v4",
                 get_default_routes(state, kernel.routes4))

\* get_default_routes(&handle, IpVersion::V6, &mut state).await?;
ci_get_routes_v6 ==
    SnapshotStep("get_routes_v6", "send_initial", "routes_v6",
                 get_default_routes(state, kernel.routes6))

\* ci_send_initial that keeps a {None, None} verdict to itself
ci_send_initial_unless_none ==
    /\ platform = "linux"
    /\ pc = "send_initial"
    /\ connectivity' = Interfaces_connectivity(state)
    /\ IF connectivity' = Connectivity(CsNone, CsNone)
       THEN /\ pc' = "select"
            /\ UNCHANGED <<result, txAlive, chanVars>>
       ELSE IF CanSend
       THEN /\ chan' = Append(chan, connectivity')
            /\ sent' = Append(sent, connectivity')
            /\ pc' = "select"
            /\ UNCHANGED <<result, txAlive>>
       ELSE /\ Terminate(Err("SendError", ""))
            /\ UNCHANGED chanVars
    /\ UNCHANGED <<platform, ctor, kernel, kernelHad, libState,
                   joined, state, cur, messages, arrived,
                   applied, winVars, rxVars>>

\* let mut connectivity = state.connectivity(); tx.send(connectivity)?;
ci_send_initial ==
    /\ platform = "linux"
    /\ pc = "send_initial"
    /\ connectivity' = Interfaces_connectivity(state)
    /\ IF CanSend
       THEN /\ chan' = Append(chan, connectivity')
            /\ sent' = Append(sent, connectivity')
            /\ pc' = "select"
            /\ UNCHANGED <<result, txAlive>>
       ELSE /\ Terminate(Err("SendError", ""))
            /\ UNCHANGED chanVars
    /\ UNCHANGED <<platform, ctor, kernel, kernelHad, libState,
                   joined, state, cur, messages, arrived,
                   applied, winVars, rxVars>>

\* ci_select with the branches polled in the other order: a queued frame wins over
\* the closed channel
ci_select_unbiased ==
    /\ platform = "linux"
    /\ pc = "select"
    /\ IF messages # << >>
       THEN /\ cur' = Some(Head(messages))
            /\ messages' = Tail(messages)
            /\ pc' = "handle"
            /\ UNCHANGED <<result, txAlive>>
       ELSE /\ ~CanSend
            /\ Terminate(Ok)
            /\ UNCHANGED <<cur, messages>>
    /\ UNCHANGED <<platform, ctor, kernel, kernelHad, libState,
                   joined, state, connectivity, arrived,
                   applied, winVars, chanVars, rxVars>>

\* the biased select!: tx.closed() first, then messages.next()
ci_select ==
    /\ platform = "linux"
    /\ pc = "select"
    /\ IF ~CanSend
       THEN /\ Terminate(Ok)
            /\ UNCHANGED <<cur, messages>>
       ELSE /\ messages # << >>
            /\ cur' = Some(Head(messages))
            /\ messages' = Tail(messages)
            /\ pc' = "handle"
            /\ UNCHANGED <<result, txAlive>>
    /\ UNCHANGED <<platform, ctor, kernel, kernelHad, libState,
                   joined, state, connectivity, arrived,
                   applied, winVars, chanVars, rxVars>>

\* messages.next() yields None ("no more rtnetlink messages"): the loop ends, Ok(())
ci_stream_end ==
    /\ platform = "linux"
    /\ pc = "select"
    /\ CanSend
    /\ messages = << >>
    /\ Terminate(Ok)
    /\ UNCHANGED <<platform, ctor, linuxVars, winVars, chanVars, rxVars>>

\* ci_handle whose tx.send(connectivity) has no `?`: a failed send is dropped and
\* the loop goes on
ci_handle_ignore_send_error ==
    /\ platform = "linux"
    /\ pc = "handle"
    /\ LET message == Unwrap(cur)
       IN  IF payload_error(message) # NoneOpt
           THEN /\ Terminate(Unwrap(payload_error(message)))
                /\ UNCHANGED <<state, connectivity, applied, chanVars>>
           ELSE LET d == diff_assign(connectivity,
                                     Interfaces_connectivity(apply_message(state, message)))
                IN  /\ state' = apply_message(state, message)
                    /\ applied' = Append(applied, message)
                    /\ connectivity' = d[2]
                    /\ pc' = "select"
                    /\ UNCHANGED <<result, txAlive>>
                    /\ IF d[1] /\ CanSend
                       THEN /\ chan' = Append(chan, d[2])
                            /\ sent' = Append(sent, d[2])
                       ELSE UNCHANGED chanVars
    /\ cur' = NoneOpt
    /\ UNCHANGED <<platform, ctor, kernel, kernelHad, libState,
                   joined, messages, arrived, winVars, rxVars>>

\* the loop body: match message.payload, then diff_assign and tx.send(connectivity)?
ci_handle ==
    /\ platform = "linux"
    /\ pc = "handle"
    /\ LET message == Unwrap(cur)
       IN  IF payload_error(message) # NoneOpt
           THEN /\ Terminate(Unwrap(payload_error(message)))
                /\ UNCHANGED <<state, connectivity, applied, chanVars>>
           ELSE LET d == diff_assign(connectivity,
                                     Interfaces_connectivity(apply_message(state, message)))
                IN  /\ state' = apply_message(state, message)
                    /\ applied' = Append(applied, message)
                    /\ connectivity' = d[2]
                    /\ IF ~d[1]
                       THEN /\ pc' = "select"
                            /\ UNCHANGED <<result, txAlive, chanVars>>
                       ELSE IF CanSend
                       THEN /\ chan' = Append(chan, d[2])
                            /\ sent' = Append(sent, d[2])
                            /\ pc' = "select"
                            /\ UNCHANGED <<result, txAlive>>
                       ELSE /\ Terminate(Err("SendError", ""))
                            /\ UNCHANGED chanVars
    /\ cur' = NoneOpt
    /\ UNCHANGED <<platform, ctor, kernel, kernelHad, libState,
                   joined, messages, arrived, winVars, rxVars>>

\* the points where the checker future is pending
AwaitPoints == {"get_links", "get_addresses", "get_routes_v4", "get_routes_v6", "select"}

\* driver: select! { biased; r_check = checker => .., _ = conn => () }; Ok(())
driver_conn_done ==
    /\ platform = "linux"
    /\ pc \in AwaitPoints
    /\ Terminate(Ok)
    /\ UNCHANGED <<platform, ctor, linuxVars, winVars, chanVars, rxVars>>

(***************************************************************************)
(* The consumer: the receiver end of the channel.                          *)
(***************************************************************************)
\* rx.recv() yields the oldest buffered verdict
rx_recv ==
    /\ rx = "open"
    /\ chan # << >>
    /\ received' = Append(received, Head(chan))
    /\ chan' = Tail(chan)
    /\ UNCHANGED <<platform, ctor, pc, txAlive, result, linuxVars, winVars, sent, rx,
                   rxSawClose>>

\* rx.recv() yields None: the buffer is empty and every sender is gone
rx_recv_none ==
    /\ rx = "open"
    /\ chan = << >>
    /\ ~txAlive
    /\ ~rxSawClose
    /\ rxSawClose' = TRUE
    /\ UNCHANGED <<platform, ctor, pc, txAlive, result, linuxVars, winVars, chanVars,
                   rx, received>>

\* drop(rx)
rx_drop ==
    /\ rx = "open"
    /\ rx' = "dropped"
    /\ chan' = << >>
    /\ UNCHANGED <<platform, ctor, pc, txAlive, result, linuxVars, winVars, sent,
                   received, rxSawClose>>

(***************************************************************************)
(* windows.rs: new().                                                      *)
(***************************************************************************)
\* unbounded_channel(); let connectivity = connectivity_from_system()?;
\* SenderState { tx, state: connectivity }
win_new_snapshot ==
    /\ platform = "windows"
    /\ ctor = "init"
    /\ \/ /\ stored' = connectivity_from_system(tables)
          /\ ctor' = "send_initial"
          /\ rx' = "ctor"
          /\ txAlive' = TRUE
       \/ /\ ctor' = "err_tables"
          /\ UNCHANGED <<stored, rx, txAlive>>
    /\ UNCHANGED <<platform, pc, result, linuxVars, tables, registered, cb, stateLock,
                   txLock, notified, chanVars, received, rxSawClose>>

\* sender_state.tx.lock()?.send(connectivity)?;
win_new_send_initial ==
    /\ platform = "windows"
    /\ ctor = "send_initial"
    /\ txLock = 0
    /\ IF CanSend
       THEN /\ chan' = Append(chan, stored)
            /\ sent' = Append(sent, stored)
            /\ ctor' = "register"
       ELSE /\ ctor' = "err_send"
            /\ UNCHANGED chanVars
    /\ UNCHANGED <<platform, pc, txAlive, result, linuxVars, winVars, rxVars>>

\* NotifyIpInterfaceChange(.., connectivity_changed, &*sender_state, false, &mut handle)?;
\* then Ok((driver, rx))
win_new_register ==
    /\ platform = "windows"
    /\ ctor = "register"
    /\ \/ /\ registered' = TRUE
          /\ ctor' = "ok"
          /\ rx' = "open"
          /\ pc' = "lock_tx"
          /\ UNCHANGED <<txAlive, chan>>
       \/ /\ ctor' = "err_register"
          /\ rx' = "none"
          /\ txAlive' = FALSE
          /\ chan' = << >>
          /\ UNCHANGED <<registered, pc>>
    /\ UNCHANGED <<platform, result, linuxVars, tables, stored, cb, stateLock, txLock,
                   notified, sent, received, rxSawClose>>

(***************************************************************************)
(* windows.rs: the driver future of new().  The future owns the pinned     *)
(* SenderState and the notification handle; when it returns, the block is  *)
(* freed.                                                                  *)
(***************************************************************************)
\* sender_state.tx.lock()?: the guard of the statement
\*   let locked_tx = sender_state.tx.lock()?.clone();
win_driver_lock_tx ==
    /\ platform = "windows"
    /\ pc = "lock_tx"
    /\ txLock = 0
    /\ txLock' = DriverOwner
    /\ pc' = "clone"
    /\ UNCHANGED <<platform, ctor, txAlive, result, linuxVars, tables, stored, registered,
                   cb, stateLock, notified, chanVars, rxVars>>

\* the clone with the guard kept in a local across locked_tx.closed().await
win_driver_clone_keep_guard ==
    /\ platform = "windows"
    /\ pc = "clone"
    /\ pc' = "wait_closed"
    /\ UNCHANGED <<platform, ctor, txAlive, result, linuxVars, winVars, chanVars, rxVars>>

\* .clone(); the guard is a temporary and is dropped at the end of the statement,
\* before locked_tx.closed().await
win_driver_clone ==
    /\ platform = "windows"
    /\ pc = "clone"
    /\ txLock' = 0
    /\ pc' = "wait_closed"
    /\ UNCHANGED <<platform, ctor, txAlive, result, linuxVars, tables, stored, registered,
                   cb, stateLock, notified, chanVars, rxVars>>

\* locked_tx.closed().await
win_driver_closed ==
    /\ platform = "windows"
    /\ pc = "wait_closed"
    /\ ~CanSend
    /\ pc' = "cancel"
    /\ UNCHANGED <<platform, ctor, txAlive, result, linuxVars, winVars, chanVars, rxVars>>

\* CancelMibChangeNotify2(handle)?; Ok(())
\* (a successful cancellation returns once no callback is running)
win_driver_cancel ==
    /\ platform = "windows"
    /\ pc = "cancel"
    /\ \/ /\ \A t \in Threads : cb[t].pc \in {"idle", "returned"}
          /\ registered' = FALSE
          /\ Terminate(Ok)
       \/ /\ Terminate(Err("CancelError", ""))
          /\ UNCHANGED registered
    /\ UNCHANGED <<platform, ctor, linuxVars, tables, stored, cb, stateLock, txLock,
                   notified, chanVars, rxVars>>

(***************************************************************************)
(* windows.rs: the system and the change callback on OS threads.  The      *)
(* callback gets the address of the SenderState as caller_context.  While  *)
(* the driver future lives the block is allocated (txAlive); a step of     *)
(* handle_connectivity_changed taken after it was freed dereferences a     *)
(* dangling pointer, and the invocation may fault or return.               *)
(***************************************************************************)
\* the stack's configuration changes
win_system_change ==
    /\ platform = "windows"
    /\ ctor \in {"send_initial", "register", "ok"}
    /\ pc # "done"
    /\ tables' \in WinSystems \ {tables}
    /\ UNCHANGED <<platform, ctor, pc, txAlive, result, linuxVars, stored, registered,
                   cb, stateLock, txLock, notified, chanVars, rxVars>>

\* connectivity_changed: the match on notification_type; it reads the argument
\* only, so the invocation starts where the match leaves it
connectivity_changed(notification_type) ==
    IF notification_type \in {"MibParameterNotification", "MibAddInstance",
                              "MibDeleteInstance", "MibInitialNotification"}
    THEN [IdleCb EXCEPT !.pc = "lock_state"]
    ELSE ReturnedCb

\* the OS calls connectivity_changed(caller_context, _, notification_type) on a
\* thread of its own
win_notify ==
    /\ platform = "windows"
    /\ registered
    /\ notified < MaxNotify
    /\ notified' = notified + 1
    /\ \E type \in NotificationTypes :
          cb' = [cb EXCEPT ![notified + 1] = connectivity_changed(type)]
    /\ UNCHANGED <<platform, ctor, pc, txAlive, result, linuxVars, tables, stored,
                   registered, stateLock, txLock, chanVars, rxVars>>

\* a step of handle_connectivity_changed on a freed SenderState
Dangling(t) ==
    /\ ~txAlive
    /\ \E outcome \in {"fault", "returned"} :
          cb' = [cb EXCEPT ![t] = [IdleCb EXCEPT !.pc = outcome, !.res = "freed"]]
    /\ UNCHANGED <<stored, stateLock, txLock, chanVars>>

\* hcc_lock_state that goes on without the state mutex
hcc_lock_state_no_wait(t) ==
    /\ platform = "windows"
    /\ cb[t].pc = "lock_state"
    /\ \/ /\ txAlive
          /\ stateLock' = t
          /\ cb' = [cb EXCEPT ![t].pc = "read"]
          /\ UNCHANGED <<stored, txLock, chanVars>>
       \/ Dangling(t)
    /\ UNCHANGED <<platform, ctor, pc, txAlive, result, linuxVars, tables, registered,
                   notified, rxVars>>

\* handle_connectivity_changed: let mut state = sender_state.state.lock()?;
hcc_lock_state(t) ==
    /\ platform = "windows"
    /\ cb[t].pc = "lock_state"
    /\ \/ /\ txAlive
          /\ stateLock = 0
          /\ stateLock' = t
          /\ cb' = [cb EXCEPT ![t].pc = "read"]
          /\ UNCHANGED <<stored, txLock, chanVars>>
       \/ Dangling(t)
    /\ UNCHANGED <<platform, ctor, pc, txAlive, result, linuxVars, tables, registered,
                   notified, rxVars>>

\* hcc_read storing {None, None} when a table cannot be read
hcc_read_reset_on_error(t) ==
    /\ platform = "windows"
    /\ cb[t].pc = "read"
    /\ \/ /\ txAlive
          /\ \/ /\ cb' = [cb EXCEPT ![t].pc = "compare",
                                    ![t].new = connectivity_from_system(tables)]
                /\ UNCHANGED <<stateLock, stored>>
             \/ /\ cb' = [cb EXCEPT ![t] = [ReturnedCb EXCEPT !.res = "tables"]]
                /\ stored' = Connectivity(CsNone, CsNone)
                /\ stateLock' = 0
          /\ UNCHANGED <<txLock, chanVars>>
       \/ Dangling(t)
    /\ UNCHANGED <<platform, ctor, pc, txAlive, result, linuxVars, tables, registered,
                   notified, rxVars>>

\* handle_connectivity_changed: let new_connectivity = connectivity_from_system()?;
\* on Err the guard is dropped and connectivity_changed logs the error
hcc_read(t) ==
    /\ platform = "windows"
    /\ cb[t].pc = "read"
    /\ \/ /\ txAlive
          /\ \/ /\ cb' = [cb EXCEPT ![t].pc = "compare",
                                    ![t].new = connectivity_from_system(tables)]
                /\ UNCHANGED stateLock
             \/ /\ cb' = [cb EXCEPT ![t] = [ReturnedCb EXCEPT !.res = "tables"]]
                /\ stateLock' = 0
          /\ UNCHANGED <<stored, txLock, chanVars>>
       \/ Dangling(t)
    /\ UNCHANGED <<platform, ctor, pc, txAlive, result, linuxVars, tables, registered,
                   notified, rxVars>>

\* handle_connectivity_changed: if *state != new_connectivity { .. }; Ok(())
hcc_compare(t) ==
    /\ platform = "windows"
    /\ cb[t].pc = "compare"
    /\ \/ /\ txAlive
          /\ IF stored # cb[t].new
             THEN /\ cb' = [cb EXCEPT ![t].pc = "lock_tx"]
                  /\ UNCHANGED stateLock
             ELSE /\ cb' = [cb EXCEPT ![t] = ReturnedCb]
                  /\ stateLock' = 0
          /\ UNCHANGED <<stored, txLock, chanVars>>
       \/ Dangling(t)
    /\ UNCHANGED <<platform, ctor, pc, txAlive, result, linuxVars, tables, registered,
                   notified, rxVars>>

\* handle_connectivity_changed: sender_state.tx.lock()?
hcc_lock_tx(t) ==
    /\ platform = "windows"
    /\ cb[t].pc = "lock_tx"
    /\ \/ /\ txAlive
          /\ txLock = 0
          /\ txLock' = t
          /\ cb' = [cb EXCEPT ![t].pc = "send"]
          /\ UNCHANGED <<stored, stateLock, chanVars>>
       \/ Dangling(t)
    /\ UNCHANGED <<platform, ctor, pc, txAlive, result, linuxVars, tables, registered,
                   notified, rxVars>>

\* handle_connectivity_changed: .send(new_connectivity)?; *state = new_connectivity;
\* both guards are dropped on return
hcc_publish(t) ==
    /\ platform = "windows"
    /\ cb[t].pc = "send"
    /\ \/ /\ txAlive
          /\ IF CanSend
             THEN /\ chan' = Append(chan, cb[t].new)
                  /\ sent' = Append(sent, cb[t].new)
                  /\ stored' = cb[t].new
                  /\ cb' = [cb EXCEPT ![t] = ReturnedCb]
             ELSE /\ cb' = [cb EXCEPT ![t] = [ReturnedCb EXCEPT !.res = "send"]]
                  /\ UNCHANGED <<chan, sent, stored>>
          /\ txLock' = 0
          /\ stateLock' = 0
       \/ Dangling(t)
    /\ UNCHANGED <<platform, ctor, pc, txAlive, result, linuxVars, tables, registered,
                   notified, rxVars>>

(***************************************************************************)
(* The specification.                                                      *)
(***************************************************************************)
Next ==
    \/ new_connection
    \/ add_membership
    \/ new_return
    \/ kernel_event
    \/ ci_get_links
    \/ ci_get_addresses
    \/ ci_get_routes_v4
    \/ ci_get_routes_v6
    \/ ci_send_initial
    \/ ci_select
    \/ ci_stream_end
    \/ ci_handle
    \/ driver_conn_done
    \/ rx_recv
    \/ rx_recv_none
    \/ rx_drop
    \/ win_new_snapshot
    \/ win_new_send_initial
    \/ win_new_register
    \/ win_driver_lock_tx
    \/ win_driver_clone
    \/ win_driver_closed
    \/ win_driver_cancel
    \/ win_system_change
    \/ win_notify
    \/ \E t \in Threads : hcc_lock_state(t)
    \/ \E t \in Threads : hcc_read(t)
    \/ \E t \in Threads : hcc_compare(t)
    \/ \E t \in Threads : hcc_lock_tx(t)
    \/ \E t \in Threads : hcc_publish(t)

Spec == Init /\ [][Next]_vars

(***************************************************************************)
(* Sequential runs.  new() has returned; the consumer keeps the receiver   *)
(* and the netlink connection stays up; a frame is delivered only when the *)
(* driver waits with an empty queue.  On Windows the run is new() itself   *)
(* over every table content of WinTableSpace.                              *)
(***************************************************************************)
InitState ==
    /\ platform \in {"linux", "windows"}
    /\ kernel \in (IF platform = "linux" THEN StateDumps
                   ELSE {KernelDump(<< >>, << >>, << >>, << >>)})
    /\ kernelHad = {}
    /\ libState = lib_InterfacesState_new
    /\ tables \in (IF platform = "windows" THEN WinTableSpace
                   ELSE {WinTables(<< >>, << >>, << >>)})
    /\ ctor = (IF platform = "linux" THEN "ok" ELSE "init")
    /\ joined = (IF platform = "linux" THEN Len(groups) ELSE 0)
    /\ pc = (IF platform = "linux" THEN "get_links" ELSE "unstarted")
    /\ rx = (IF platform = "linux" THEN "open" ELSE "none")
    /\ txAlive = (platform = "linux")
    /\ state = Interfaces_new
    /\ connectivity = Connectivity(CsNone, CsNone)
    /\ cur = NoneOpt
    /\ messages = << >>
    /\ chan = << >>
    /\ result = Pending
    /\ sent = << >>
    /\ received = << >>
    /\ rxSawClose = FALSE
    /\ arrived = << >>
    /\ applied = << >>
    /\ stored = Connectivity(CsNone, CsNone)
    /\ registered = FALSE
    /\ cb = [t \in Threads |-> IdleCb]
    /\ stateLock = 0
    /\ txLock = 0
    /\ notified = 0

\* messages.next() of the select!: the next frame of the feed
state_event ==
    /\ platform = "linux"
    /\ pc = "select"
    /\ messages = << >>
    /\ Len(arrived) < MaxFeed
    /\ \E f \in StateFrames :
          /\ messages' = <<f>>
          /\ arrived' = Append(arrived, f)
    /\ UNCHANGED <<platform, ctor, pc, txAlive, result, kernel, kernelHad, libState, joined, state,
                   connectivity, cur, applied, winVars, chanVars, rxVars>>

NextState ==
    \/ ci_get_links
    \/ ci_get_addresses
    \/ ci_get_routes_v4
    \/ ci_get_routes_v6
    \/ ci_send_initial
    \/ state_event
    \/ ci_select
    \/ ci_handle
    \/ win_new_snapshot
    \/ win_new_send_initial
    \/ win_new_register

SpecState == InitState /\ [][NextState]_vars

(***************************************************************************)
(* Bring-up runs on Linux: the kernel dump is empty, so the shadow is      *)
(* empty and {None, None} is published; then links, v4 addresses and v4    *)
(* default routes of interfaces 2 and 3 are announced, one frame at a      *)
(* time.                                                                   *)
(***************************************************************************)
addr4other(k) == AddressMessage(k, "AF_INET", {}, <<Nla("Address", Bytes(4, 3))>>)

ScenarioFrames ==
    { InnerMessage("NewLink", eth(2, TRUE)), InnerMessage("NewLink", eth(3, TRUE)),
      InnerMessage("NewAddress", addr4(2)), InnerMessage("NewAddress", addr4other(2)),
      InnerMessage("NewAddress", addr4(3)),
      InnerMessage("NewRoute", route4(2)), InnerMessage("NewRoute", route4metric(2)),
      InnerMessage("NewRoute", route4(3)) }

InitScenario ==
    /\ InitState
    /\ platform = "linux"
    /\ kernel = KernelDump(<< >>, << >>, << >>, << >>)

\* messages.next() of the select!: the next frame of the bring-up
scenario_event ==
    /\ platform = "linux"
    /\ pc = "select"
    /\ messages = << >>
    /\ Len(arrived) < MaxScenario
    /\ \E f \in ScenarioFrames :
          /\ messages' = <<f>>
          /\ arrived' = Append(arrived, f)
    /\ UNCHANGED <<platform, ctor, pc, txAlive, result, kernel, kernelHad, libState, joined, state,
                   connectivity, cur, applied, winVars, chanVars, rxVars>>

NextScenario ==
    \/ ci_get_links
    \/ ci_get_addresses
    \/ ci_get_routes_v4
    \/ ci_get_routes_v6
    \/ ci_send_initial
    \/ scenario_event
    \/ ci_select
    \/ ci_handle

SpecScenario == InitScenario /\ [][NextScenario]_vars

(***************************************************************************)
(* Route runs on Linux: dumps and frames whose route messages carry all or *)
(* only some of the Oif, Gateway and Priority attributes, in both          *)
(* families, delivered one frame at a time.                                *)
(***************************************************************************)
route4nooif == RouteMessage("AF_INET", 0, <<Nla("Gateway", Bytes(4, 9)), Nla("Priority", 100)>>)
route4noprio(k) ==
    RouteMessage("AF_INET", 0, <<Nla("Gateway", Bytes(4, 9)), Nla("Oif", k)>>)
route6nogw(k) ==
    RouteMessage("AF_INET6", 0, <<Nla("Oif", k), Nla("Priority", 100), Nla("Table", 254)>>)
route6noprio(k) ==
    RouteMessage("AF_INET6", 0, <<Nla("Oif", k), Nla("Gateway", Bytes(16, 9))>>)

RouteDumps ==
    { KernelDump(<<eth(2, TRUE)>>, <<addr4(2), addr6(2)>>, << >>, << >>),
      KernelDump(<<eth(2, TRUE)>>, <<addr4(2), addr6(2)>>,
                 <<route4nogw(2), route4(2), route4noprio(2)>>,
                 <<route6noprio(2), route6(2)>>),
      KernelDump(<<eth(2, TRUE)>>, <<addr4(2), addr6(2)>>,
                 <<route4nooif>>, <<route6nogw(2)>>) }

RouteAttrFrames ==
    { InnerMessage("NewRoute", route4(2)), InnerMessage("DelRoute", route4(2)),
      InnerMessage("NewRoute", route6(2)), InnerMessage("DelRoute", route6(2)),
      InnerMessage("NewRoute", route4nogw(2)), InnerMessage("DelRoute", route4nogw(2)),
      InnerMessage("NewRoute", route4nooif), InnerMessage("DelRoute", route4nooif),
      InnerMessage("NewRoute", route4noprio(2)), InnerMessage("DelRoute", route4noprio(2)),
      InnerMessage("NewRoute", route6nogw(2)), InnerMessage("DelRoute", route6noprio(2)) }

InitRoutes ==
    /\ platform = "linux"
    /\ kernel \in RouteDumps
    /\ kernelHad = {}
    /\ libState = lib_InterfacesState_new
    /\ tables = WinTables(<< >>, << >>, << >>)
    /\ ctor = "ok"
    /\ joined = Len(groups)
    /\ pc = "get_links"
    /\ rx = "open"
    /\ txAlive = TRUE
    /\ state = Interfaces_new
    /\ connectivity = Connectivity(CsNone, CsNone)
    /\ cur = NoneOpt
    /\ messages = << >>
    /\ chan = << >>
    /\ result = Pending
    /\ sent = << >>
    /\ received = << >>
    /\ rxSawClose = FALSE
    /\ arrived = << >>
    /\ applied = << >>
    /\ stored = Connectivity(CsNone, CsNone)
    /\ registered = FALSE
    /\ cb = [t \in Threads |-> IdleCb]
    /\ stateLock = 0
    /\ txLock = 0
    /\ notified = 0

\* messages.next() of the select!: the next route frame
route_event ==
    /\ platform = "linux"
    /\ pc = "select"
    /\ messages = << >>
    /\ Len(arrived) < MaxRoutes
    /\ \E f \in RouteAttrFrames :
          /\ messages' = <<f>>
          /\ arrived' = Append(arrived, f)
    /\ UNCHANGED <<platform, ctor, pc, txAlive, result, kernel, kernelHad, libState, joined, state,
                   connectivity, cur, applied, winVars, chanVars, rxVars>>

NextRoutes ==
    \/ ci_get_links
    \/ ci_get_addresses
    \/ ci_get_routes_v4
    \/ ci_get_routes_v6
    \/ ci_send_initial
    \/ route_event
    \/ ci_select
    \/ ci_handle

SpecRoutes == InitRoutes /\ [][NextRoutes]_vars

(***************************************************************************)
(* Merge runs on Linux: `kernel` is the configuration the kernel has now.  *)
(* A dump request answers with the table as it is at that moment; every    *)
(* change of the configuration is multicast as the frames the kernel sends *)
(* for it, on the groups joined so far.  The configuration changes once    *)
(* new() has returned; the consumer keeps the receiver and the connection  *)
(* stays up.  Interface 2 comes, goes, gains and loses its carrier, a v4   *)
(* address and a v4 default route.                                         *)
(***************************************************************************)
\* the verdict of a kernel configuration: per family the best level over the
\* non-loopback links with a carrier, Network with a non-permanent address,
\* Internet with a default route (prefix length 0) on top
KernelVerdict(k) ==
    LET Live == {i \in 1..Len(k.links) :
                    /\ "IFF_LOWER_UP" \in k.links[i].flags
                    /\ "IFF_LOOPBACK" \notin k.links[i].flags}
        HasAddress(index, family) ==
            \E j \in 1..Len(k.addrs) :
                /\ k.addrs[j].index = index
                /\ k.addrs[j].family = family
                /\ "IFA_F_PERMANENT" \notin k.addrs[j].flags
                /\ \A n \in 1..Len(k.addrs[j].nlas) :
                      k.addrs[j].nlas[n][1] = "Flags" =>
                          "IFA_F_PERMANENT" \notin k.addrs[j].nlas[n][2]
        HasDefault(index, routes) ==
            \E j \in 1..Len(routes) :
                /\ routes[j].destination_prefix_length = 0
                /\ \E n \in 1..Len(routes[j].nlas) : routes[j].nlas[n] = <<"Oif", index>>
        Level(index, family, routes) ==
            IF ~HasAddress(index, family) THEN CsNone
            ELSE IF ~HasDefault(index, routes) THEN CsNetwork
            ELSE CsInternet
        Best(family, routes) ==
            IF \E i \in Live : Level(k.links[i].index, family, routes) = CsInternet
            THEN CsInternet
            ELSE IF \E i \in Live : Level(k.links[i].index, family, routes) = CsNetwork
            THEN CsNetwork
            ELSE CsNone
    IN  Connectivity(Best("AF_INET", k.routes4), Best("AF_INET6", k.routes6))

MergeConfigs ==
    { KernelDump(<<lo>>, <<addr4perm(1)>>, << >>, << >>),
      KernelDump(<<lo, eth(2, TRUE)>>, <<addr4perm(1)>>, << >>, << >>),
      KernelDump(<<lo, eth(2, TRUE)>>, <<addr4perm(1), addr4(2)>>, <<route4(2)>>, << >>),
      KernelDump(<<lo, eth(2, TRUE)>>, <<addr4perm(1), addr4perm(2)>>, <<route4(2)>>,
                 << >>),
      KernelDump(<<lo, eth(2, TRUE)>>, <<addr4perm(1), addr4(2)>>, <<route4net(2)>>,
                 << >>) }

\* the changes the kernel can make to configuration k, each with the frames it
\* multicasts for it: interface 2 is announced with or without carrier, or is
\* deleted once it has no address and no route; its address and its default
\* route are added or removed
KernelChanges(k) ==
    LET IsTwo(l) == l.index = 2
        NotTwo(l) == l.index # 2
        OifTwo(r) == \E n \in 1..Len(r.nlas) : r.nlas[n] = <<"Oif", 2>>
        NotOifTwo(r) == ~OifTwo(r)
        HasLink == SelectSeq(k.links, IsTwo) # << >>
        HasAddr == \E j \in 1..Len(k.addrs) : k.addrs[j] = addr4(2)
        HasRoute == \E j \in 1..Len(k.routes4) : k.routes4[j] = route4(2)
        NotAddr(a) == a # addr4(2)
        NotRoute(r) == r # route4(2)
        Gone(rows, variant) == [j \in 1..Len(rows) |-> InnerMessage(variant, rows[j])]
        link == { [after |-> [k EXCEPT !.links = Append(SelectSeq(k.links, NotTwo), l)],
                   frames |-> <<InnerMessage("NewLink", l)>>] :
                  l \in {eth(2, TRUE), eth(2, FALSE)} \ {k.links[i] : i \in 1..Len(k.links)} }
        unlink == IF ~HasLink \/ SelectSeq(k.addrs, IsTwo) # << >>
                     \/ SelectSeq(k.routes4 \o k.routes6, OifTwo) # << >>
                  THEN {}
                  ELSE { [after |-> [k EXCEPT !.links = SelectSeq(k.links, NotTwo)],
                          frames |-> Gone(SelectSeq(k.links, IsTwo), "DelLink")] }
        address == IF ~HasLink THEN {}
                   ELSE IF HasAddr
                   THEN { [after |-> [k EXCEPT !.addrs = SelectSeq(k.addrs, NotAddr)],
                           frames |-> <<InnerMessage("DelAddress", addr4(2))>>] }
                   ELSE { [after |-> [k EXCEPT !.addrs = Append(k.addrs, addr4(2))],
                           frames |-> <<InnerMessage("NewAddress", addr4(2))>>] }
        route == IF ~HasLink THEN {}
                 ELSE IF HasRoute
                 THEN { [after |-> [k EXCEPT !.routes4 = SelectSeq(k.routes4, NotRoute)],
                         frames |-> <<InnerMessage("DelRoute", route4(2))>>] }
                 ELSE { [after |-> [k EXCEPT !.routes4 = Append(k.routes4, route4(2))],
                         frames |-> <<InnerMessage("NewRoute", route4(2))>>] }
    IN  link \cup unlink \cup address \cup route

InitMerge ==
    /\ platform = "linux"
    /\ kernel \in MergeConfigs
    /\ kernelHad = {KernelVerdict(kernel)}
    /\ libState = lib_InterfacesState_new
    /\ tables = WinTables(<< >>, << >>, << >>)
    /\ ctor = "init"
    /\ joined = 0
    /\ pc = "unstarted"
    /\ rx = "none"
    /\ txAlive = FALSE
    /\ state = Interfaces_new
    /\ connectivity = Connectivity(CsNone, CsNone)
    /\ cur = NoneOpt
    /\ messages = << >>
    /\ chan = << >>
    /\ result = Pending
    /\ sent = << >>
    /\ received = << >>
    /\ rxSawClose = FALSE
    /\ arrived = << >>
    /\ applied = << >>
    /\ stored = Connectivity(CsNone, CsNone)
    /\ registered = FALSE
    /\ cb = [t \in Threads |-> IdleCb]
    /\ stateLock = 0
    /\ txLock = 0
    /\ notified = 0

\* the kernel changes its configuration and multicasts the frames of the change;
\* the socket queues those of the groups it has joined
kernel_change ==
    /\ platform = "linux"
    /\ ctor = "ok"
    /\ pc # "done"
    /\ Len(arrived) < MaxChanges
    /\ \E c \in KernelChanges(kernel) :
          LET IsJoined(f) == Joined(FrameGroup(f))
              queued == SelectSeq(c.frames, IsJoined)
          IN  /\ kernel' = c.after
              /\ kernelHad' = kernelHad \cup {KernelVerdict(c.after)}
              /\ messages' = messages \o queued
              /\ arrived' = arrived \o queued
    /\ UNCHANGED <<platform, ctor, pc, txAlive, result, joined, state, libState,
                   connectivity, cur, applied, winVars, chanVars, rxVars>>

NextMerge ==
    \/ new_connection
    \/ add_membership
    \/ new_return
    \/ kernel_change
    \/ ci_get_links
    \/ ci_get_addresses
    \/ ci_get_routes_v4
    \/ ci_get_routes_v6
    \/ ci_send_initial
    \/ ci_select
    \/ ci_handle

SpecMerge == InitMerge /\ [][NextMerge]_vars

(***************************************************************************)
(* Table runs on Windows: every change of the three tables made while the  *)
(* change notification is registered calls connectivity_changed once, on   *)
(* a thread of its own, with one of the instance notification types; a     *)
(* change made before the registration calls nothing.  The consumer keeps  *)
(* the receiver, so the driver stays in closed().await.                    *)
(***************************************************************************)
InitTables ==
    /\ platform = "windows"
    /\ kernel = KernelDump(<< >>, << >>, << >>, << >>)
    /\ kernelHad = {}
    /\ libState = lib_InterfacesState_new
    /\ tables \in WinSystems
    /\ ctor = "init"
    /\ joined = 0
    /\ pc = "unstarted"
    /\ rx = "none"
    /\ txAlive = FALSE
    /\ state = Interfaces_new
    /\ connectivity = Connectivity(CsNone, CsNone)
    /\ cur = NoneOpt
    /\ messages = << >>
    /\ chan = << >>
    /\ result = Pending
    /\ sent = << >>
    /\ received = << >>
    /\ rxSawClose = FALSE
    /\ arrived = << >>
    /\ applied = << >>
    /\ stored = Connectivity(CsNone, CsNone)
    /\ registered = FALSE
    /\ cb = [t \in Threads |-> IdleCb]
    /\ stateLock = 0
    /\ txLock = 0
    /\ notified = 0

\* the stack's configuration changes; with the notification registered the OS
\* calls connectivity_changed for it
win_table_change ==
    /\ platform = "windows"
    /\ ctor \in {"send_initial", "register", "ok"}
    /\ tables' \in WinSystems \ {tables}
    /\ IF registered
       THEN /\ notified < MaxNotify
            /\ notified' = notified + 1
            /\ \E type \in {"MibParameterNotification", "MibAddInstance",
                            "MibDeleteInstance"} :
                  cb' = [cb EXCEPT ![notified + 1] = connectivity_changed(type)]
       ELSE UNCHANGED <<notified, cb>>
    /\ UNCHANGED <<platform, ctor, pc, txAlive, result, linuxVars, stored, registered,
                   stateLock, txLock, chanVars, rxVars>>

NextTables ==
    \/ win_new_snapshot
    \/ win_new_send_initial
    \/ win_new_register
    \/ win_driver_lock_tx
    \/ win_driver_clone
    \/ win_table_change
    \/ \E t \in Threads : hcc_lock_state(t)
    \/ \E t \in Threads : hcc_read(t)
    \/ \E t \in Threads : hcc_compare(t)
    \/ \E t \in Threads : hcc_lock_tx(t)
    \/ \E t \in Threads : hcc_publish(t)

SpecTables == InitTables /\ [][NextTables]_vars

(***************************************************************************)
(* Side-by-side runs of the iterations of the state model: the map of      *)
(* state.rs and the map of lib.rs are built from the same four dumps and   *)
(* then take the same frames, each through its own match.                  *)
(***************************************************************************)
IterationFrames ==
    { InnerMessage("NewLink", eth(2, TRUE)), InnerMessage("NewLink", eth(2, FALSE)),
      InnerMessage("DelLink", eth(2, FALSE)), InnerMessage("NewLink", eth(3, TRUE)),
      InnerMessage("NewLink", lo), InnerMessage("DelLink", lo),
      InnerMessage("DelLink", loopback(2)),
      InnerMessage("NewAddress", addr4(2)), InnerMessage("DelAddress", addr4(2)),
      InnerMessage("NewAddress", addr6(2)), InnerMessage("NewAddress", addr4permNla(2)),
      InnerMessage("NewRoute", route4(2)), InnerMessage("DelRoute", route4(2)),
      InnerMessage("NewRoute", route6(2)), InnerMessage("NewRoute", route4nogw(3)),
      InnerMessage("NewRoute", route4(3)) }

InitIterations ==
    /\ platform = "linux"
    /\ kernel \in StateDumps
    /\ kernelHad = {}
    /\ libState = lib_initial_state(kernel)
    /\ tables = WinTables(<< >>, << >>, << >>)
    /\ ctor = "ok"
    /\ joined = Len(groups)
    /\ pc = "select"
    /\ rx = "open"
    /\ txAlive = TRUE
    /\ state = get_default_routes(
                  get_default_routes(
                      get_addresses(get_links(Interfaces_new, kernel.links),
                                    kernel.addrs),
                      kernel.routes4),
                  kernel.routes6)
    /\ connectivity = Interfaces_connectivity(state)
    /\ cur = NoneOpt
    /\ messages = << >>
    /\ chan = << >>
    /\ result = Pending
    /\ sent = << >>
    /\ received = << >>
    /\ rxSawClose = FALSE
    /\ arrived = << >>
    /\ applied = << >>
    /\ stored = Connectivity(CsNone, CsNone)
    /\ registered = FALSE
    /\ cb = [t \in Threads |-> IdleCb]
    /\ stateLock = 0
    /\ txLock = 0
    /\ notified = 0

\* one frame goes through the match of linux.rs into the map of state.rs and
\* through the match of lib.rs into the map of lib.rs
iterations_apply ==
    /\ Len(applied) < MaxIterations
    /\ \E f \in IterationFrames :
          /\ state' = apply_message(state, f)
          /\ libState' = lib_apply_message(libState, f)
          /\ applied' = Append(applied, f)
    /\ UNCHANGED <<platform, ctor, pc, txAlive, result, kernel, kernelHad, joined,
                   connectivity, cur, messages, arrived, winVars, chanVars, rxVars>>

NextIterations == iterations_apply

SpecIterations == InitIterations /\ [][NextIterations]_vars

(***************************************************************************)
(* Properties.                                                             *)
(***************************************************************************)
\* the Interfaces map the four dump requests build from the dumps k
SnapshotState(k) ==
    get_default_routes(
        get_default_routes(
            get_addresses(get_links(Interfaces_new, k.links), k.addrs),
            k.routes4),
        k.routes6)

IsPrefix(a, b) == Len(a) <= Len(b) /\ SubSeq(b, 1, Len(a)) = a

BeforeInitialSend ==
    {"unstarted", "get_links", "get_addresses", "get_routes_v4", "get_routes_v6",
     "send_initial"}

\* C1: once the snapshot has succeeded the driver publishes exactly one initial
\* verdict, the verdict of the snapshot, before it applies any frame of the change
\* feed, also when that verdict is {None, None}; afterwards every further
\* publication needs a frame (Linux) or a notification (Windows), and with none
\* pending and the receiver held the driver can neither take a frame nor proceed.
C1_InitialVerdictFirst ==
    /\ platform = "linux" =>
        /\ pc \in BeforeInitialSend => (sent = << >> /\ applied = << >>)
        /\ (pc \in {"select", "handle"} \/ applied # << >>) =>
              (/\ Len(sent) >= 1
               /\ sent[1] = Interfaces_connectivity(SnapshotState(kernel)))
        /\ Len(sent) <= 1 + Len(applied)
        /\ (pc = "select" /\ messages = << >> /\ CanSend) =>
              (~ENABLED ci_select /\ ~ENABLED ci_handle)
    /\ platform = "windows" =>
        /\ ctor \in {"init", "send_initial"} => (sent = << >> /\ ~registered)
        /\ (registered \/ notified > 0) => Len(sent) >= 1
        /\ (Len(sent) >= 1 /\ notified = 0) => sent = <<stored>>
        /\ Len(sent) <= 1 + notified
        /\ (pc = "wait_closed" /\ CanSend) =>
              (~ENABLED win_driver_closed /\ ~ENABLED win_driver_cancel)

\* C1 witness: a snapshot without a non-loopback interface; {None, None} has been
\* published and the driver waits with nothing queued.
C1_Witness ==
    /\ platform = "linux"
    /\ kernel.links = <<lo>>
    /\ pc = "select"
    /\ arrived = << >>
    /\ rx = "open"
    /\ sent = <<Connectivity(CsNone, CsNone)>>

\* C2: no two adjacent verdicts sent on the channel are equal.
C2_NoAdjacentEqual ==
    \A i \in 1..(Len(sent) - 1) : sent[i] # sent[i + 1]

\* C2 witness: three verdicts were published and the third repeats the first.
C2_Witness ==
    /\ Len(sent) = 3
    /\ sent[1] = sent[3]

\* the verdicts published for the frames `frames`, applied in order to the map s
\* whose last published verdict is `last`
RECURSIVE ExpectedAfter(_, _, _)
ExpectedAfter(s, last, frames) ==
    IF frames = << >> THEN << >>
    ELSE LET s2 == apply_message(s, Head(frames))
             c == Interfaces_connectivity(s2)
         IN  IF c # last
             THEN <<c>> \o ExpectedAfter(s2, c, Tail(frames))
             ELSE ExpectedAfter(s2, last, Tail(frames))

ExpectedStream(k, frames) ==
    <<Interfaces_connectivity(SnapshotState(k))>>
        \o ExpectedAfter(SnapshotState(k), Interfaces_connectivity(SnapshotState(k)), frames)

\* C3: frames are applied in arrival order; the published stream is the initial
\* verdict followed, per applied frame in order, by the verdict after that frame if
\* and only if it differs from the verdict published before; the receiver yields
\* the stream in publication order.
C3_StreamFollowsEvents ==
    platform = "linux" =>
        /\ IsPrefix(applied, arrived)
        /\ IsPrefix(received, sent)
        /\ (rx = "open" /\ sent # << >>) =>
              (/\ sent = ExpectedStream(kernel, applied)
               /\ received \o chan = sent)

\* C3 witness: two frames were applied, only one of them changed the verdict, and
\* the receiver has yielded the initial verdict and that one.
C3_Witness ==
    /\ platform = "linux"
    /\ rx = "open"
    /\ Len(applied) = 2
    /\ Len(sent) = 2
    /\ received = sent

\* the adapter errors a driver task can end with
AdapterErrors == {"RequestError", "NetlinkError", "Overrun", "CancelError"}

\* C4: once the receiver has been dropped nothing more is published, and unless a
\* fatal adapter error stops it the driver task completes with Ok.
C4_DropCompletesOk ==
    rx = "dropped" =>
        /\ chan = << >>
        /\ (pc = "done" /\ result.kind \notin AdapterErrors) => result = Ok

\* C5: a send that fails because the receiver is gone never becomes the result of
\* the driver task.
C5_SendFailureIsOk ==
    result.kind # "SendError"

\* C6: the driver task ends with Ok only after the consumer has dropped the
\* receiver.
C6_OkOnlyAfterConsumerClosed ==
    (pc = "done" /\ result = Ok) => rx = "dropped"

\* a frame whose payload is NetlinkPayload::Error or NetlinkPayload::Overrun
IsFatalFrame(f) == f.payload \in {"Error", "Overrun"}

\* the map after the frames `frames` were applied in order to the map s
RECURSIVE ApplyAll(_, _)
ApplyAll(s, frames) ==
    IF frames = << >> THEN s ELSE ApplyAll(apply_message(s, Head(frames)), Tail(frames))

\* C7: an Error or Overrun frame taken from the stream is never applied; the driver
\* ends with the netlink error, respectively the Overrun error, carrying the body of
\* that frame; the map and the published stream are those of the frames applied
\* before it, and no frame that arrived after it is applied.
C7_FatalFrameTerminates ==
    platform = "linux" =>
        /\ \A i \in 1..Len(applied) : ~IsFatalFrame(applied[i])
        /\ (cur = NoneOpt /\ result.kind \notin {"NetlinkError", "Overrun"}) =>
              arrived = applied \o messages
        /\ result.kind \in {"NetlinkError", "Overrun"} =>
              /\ pc = "done"
              /\ ~txAlive
              /\ cur = NoneOpt
              /\ arrived = applied \o <<arrived[Len(applied) + 1]>> \o messages
              /\ arrived[Len(applied) + 1] =
                    [payload |-> IF result.kind = "Overrun" THEN "Overrun" ELSE "Error",
                     body |-> result.data]
              /\ state = ApplyAll(SnapshotState(kernel), applied)
              /\ sent = ExpectedStream(kernel, applied)

\* C7 witness: an Overrun frame ended the driver while a later frame, which would
\* have changed the verdict, stays queued and unapplied.
C7_Witness ==
    /\ platform = "linux"
    /\ result = Err("Overrun", "d1")
    /\ applied = << >>
    /\ messages # << >>
    /\ Interfaces_connectivity(apply_message(state, Head(messages))) # connectivity

\* the map the snapshot had built when the request for `table` failed
PartialSnapshot(k, table) ==
    LET l == get_links(Interfaces_new, k.links)
        a == get_addresses(l, k.addrs)
        r == get_default_routes(a, k.routes4)
    IN  CASE table = "links" -> Interfaces_new
          [] table = "addresses" -> l
          [] table = "routes_v4" -> a
          [] table = "routes_v6" -> r

\* C8 as claimed: a failed snapshot step, on either platform, ends a driver task
\* with that error as its result, nothing having been published.
C8_SnapshotFailureEndsTask ==
    (ctor = "err_tables" \/ result.kind = "RequestError") =>
        (pc = "done" /\ result.kind = "RequestError" /\ sent = << >>)

\* C8 amended: a failed snapshot step publishes no verdict at all.  On Linux the
\* driver task ends with the error of the failed request as its result and the
\* receiver, if still held, yields nothing and then observes closure.  On Windows
\* the snapshot is read inside new(), which returns the error and hands out no
\* (driver, receiver) pair.
C8_SnapshotFailureNoVerdict ==
    /\ result.kind = "RequestError" =>
          /\ platform = "linux"
          /\ pc = "done"
          /\ ~txAlive
          /\ result.data \in {"links", "addresses", "routes_v4", "routes_v6"}
          /\ state = PartialSnapshot(kernel, result.data)
          /\ sent = << >> /\ chan = << >> /\ received = << >> /\ applied = << >>
          /\ ~ENABLED rx_recv
          /\ (rx = "open" /\ ~rxSawClose) => ENABLED rx_recv_none
    /\ ctor = "err_tables" =>
          /\ platform = "windows"
          /\ pc = "unstarted" /\ result = Pending
          /\ rx = "none" /\ ~registered
          /\ sent = << >> /\ chan = << >> /\ received = << >>

\* C8 witness: the request for the v6 default routes failed after three good dumps
\* and the receiver has observed closure without a value.
C8_Witness ==
    /\ platform = "linux"
    /\ result = Err("RequestError", "routes_v6")
    /\ state # Interfaces_new
    /\ rx = "open"
    /\ rxSawClose
    /\ received = << >>

\* C9: while the receiver is held it yields the published verdicts in publication
\* order; once the driver task has terminated the receiver can drain what is still
\* buffered and then observes closure, having yielded every published verdict;
\* closure is never observed while the driver is running.
C9_ReceiverDrainsThenCloses ==
    /\ rx = "open" => received \o chan = sent
    /\ rxSawClose => (pc = "done" /\ ~txAlive /\ received = sent)
    /\ pc # "done" => (~rxSawClose /\ ~ENABLED rx_recv_none)
    /\ (pc = "done" /\ rx = "open") =>
          IF chan # << >> THEN ENABLED rx_recv /\ ~ENABLED rx_recv_none
          ELSE rxSawClose \/ ENABLED rx_recv_none

\* C9 witness: the driver ended on an Overrun frame after two publications; the
\* receiver yielded both and then observed closure.
C9_Witness ==
    /\ result.kind = "Overrun"
    /\ Len(sent) = 2
    /\ received = sent
    /\ rxSawClose

\* C10: when new() has returned an error for the connection, a group membership or
\* the registration of the change notification, no receiver and no driver exist:
\* nothing was started, nothing was applied or received, no callback is registered,
\* and nothing can happen any more.
C10_CtorFailureNoPair ==
    ctor \in {"err_connection", "err_membership", "err_register"} =>
        /\ rx = "none"
        /\ pc = "unstarted"
        /\ result = Pending
        /\ ~txAlive
        /\ ~registered
        /\ state = Interfaces_new
        /\ applied = << >> /\ received = << >> /\ chan = << >>
        /\ platform = "linux" => sent = << >>
        /\ ~ENABLED Next

\* C10 witness: the fourth of the five group memberships failed after three joins.
C10_Witness ==
    /\ ctor = "err_membership"
    /\ joined = 3

\* the level of one family: Internet if some interface has carrier, an address and
\* a gateway of that family; else Network if some interface has carrier and an
\* address; else None
FamilyLevel(s, addresses, gateways) ==
    IF \E k \in DOMAIN s : s[k].up /\ s[k][addresses] # {} /\ s[k][gateways] # {}
    THEN CsInternet
    ELSE IF \E k \in DOMAIN s : s[k].up /\ s[k][addresses] # {} THEN CsNetwork
    ELSE CsNone

\* C11: the verdict of every reachable map is, per family, the highest level any
\* single interface reaches on its own; the empty map yields {None, None}.
C11_VerdictIsPerInterfaceMax ==
    platform = "linux" =>
        /\ Interfaces_connectivity(state) =
              Connectivity(FamilyLevel(state, "v4a", "v4g"),
                           FamilyLevel(state, "v6a", "v6g"))
        /\ state = Interfaces_new =>
              Interfaces_connectivity(state) = Connectivity(CsNone, CsNone)
        /\ pc = "select" => connectivity = Interfaces_connectivity(state)

\* C11 witness: interface 2 has carrier and a v4 address but no gateway, interface 3
\* has carrier and a v4 gateway but no address; the v4 level is Network.
C11_Witness ==
    /\ platform = "linux"
    /\ pc = "select"
    /\ DOMAIN state = {2, 3}
    /\ state[2].up /\ state[2].v4a # {} /\ state[2].v4g = {}
    /\ state[3].up /\ state[3].v4a = {} /\ state[3].v4g # {}
    /\ connectivity.ipv4 = CsNetwork

\* the run started from the empty map (an empty snapshot)
FromEmpty == kernel = KernelDump(<< >>, << >>, << >>, << >>)

\* frame g undoes frame f with equal arguments: NewLink/DelLink, NewAddress/
\* DelAddress or NewRoute/DelRoute of the same message, which parses to arguments
IsRoundTrip(f, g) ==
    /\ f.payload = "InnerMessage" /\ g.payload = "InnerMessage"
    /\ f.body.msg = g.body.msg
    /\ \/ f.body.variant = "NewLink" /\ g.body.variant = "DelLink"
       \/ /\ f.body.variant = "NewAddress" /\ g.body.variant = "DelAddress"
          /\ parse_address(f.body.msg) # NoneOpt
       \/ /\ f.body.variant = "NewRoute" /\ g.body.variant = "DelRoute"
          /\ parse_default_route(f.body.msg) # NoneOpt

\* exactly an add and its matching remove were applied to the empty map
RoundTripDone ==
    /\ platform = "linux"
    /\ FromEmpty
    /\ pc = "select"
    /\ Len(applied) = 2
    /\ IsRoundTrip(applied[1], applied[2])

\* C12 as claimed: an add followed by the matching remove, applied to the empty
\* map, yields the empty map.
C12_RoundTripYieldsEmpty ==
    RoundTripDone => state = Interfaces_new

\* C12 amended: applied to the empty map, add_link followed by remove_link yields
\* the empty map; add_address followed by remove_address, or add_default_route
\* followed by remove_default_route, leaves one entry for the key, with carrier
\* false and empty address and gateway sets; in each case the verdict is that of
\* the empty map and nothing is published.
C12_RoundTripLeavesEmptyEntry ==
    RoundTripDone =>
        /\ Interfaces_connectivity(state) = Connectivity(CsNone, CsNone)
        /\ sent = <<Connectivity(CsNone, CsNone)>>
        /\ IF applied[1].body.variant = "NewLink"
           THEN state = Interfaces_new
           ELSE LET k == IF applied[1].body.variant = "NewAddress"
                         THEN Unwrap(parse_address(applied[1].body.msg))[1]
                         ELSE Unwrap(parse_default_route(applied[1].body.msg))[1]
                IN  /\ DOMAIN state = {k}
                    /\ state[k] = Interface_new(FALSE)

\* C12 witness: a v4 address was added to interface 2 of the empty map and removed
\* again.
C12_Witness ==
    /\ RoundTripDone
    /\ applied = <<InnerMessage("NewAddress", addr4(2)),
                   InnerMessage("DelAddress", addr4(2))>>
    /\ DOMAIN state = {2}

\* the arguments the frames of the feed parse to
LinkArgs == {parse_link(f.body.msg) : f \in LinkFrames}
AddressArgs ==
    {Unwrap(parse_address(f.body.msg)) :
        f \in {g \in AddressFrames : parse_address(g.body.msg) # NoneOpt}}
RouteArgs ==
    {Unwrap(parse_default_route(f.body.msg)) :
        f \in {g \in RouteFrames : parse_default_route(g.body.msg) # NoneOpt}}

\* the address / the gateway entry is in the map s
HasAddress(s, a) ==
    /\ a[1] \in DOMAIN s
    /\ a[2].a \in (IF a[2].fam = "V4" THEN s[a[1]].v4a ELSE s[a[1]].v6a)
HasGateway(s, r) ==
    /\ r[1] \in DOMAIN s
    /\ <<r[2].a, r[3]>> \in (IF r[2].fam = "V4" THEN s[r[1]].v4g ELSE s[r[1]].v6g)

\* no frame is queued or being handled: every map the driver builds is the map of
\* such a state
Quiescent == messages = << >> /\ cur = NoneOpt

\* C13: on every reachable map each add applied twice equals the add applied once,
\* and each remove of an absent address, gateway entry or interface returns the map
\* unchanged, without creating an entry.
C13_MutationsIdempotent ==
    (platform = "linux" /\ Quiescent) =>
        /\ \A l \in LinkArgs :
              /\ add_link(add_link(state, l), l) = add_link(state, l)
              /\ l[1] \notin DOMAIN state => remove_link(state, l) = state
              /\ remove_link(remove_link(state, l), l) = remove_link(state, l)
        /\ \A a \in AddressArgs :
              /\ add_address(add_address(state, a), a) = add_address(state, a)
              /\ HasAddress(state, a) => add_address(state, a) = state
              /\ ~HasAddress(state, a) => remove_address(state, a) = state
        /\ \A r \in RouteArgs :
              /\ add_default_route(add_default_route(state, r), r) =
                    add_default_route(state, r)
              /\ HasGateway(state, r) => add_default_route(state, r) = state
              /\ ~HasGateway(state, r) => remove_default_route(state, r) = state

\* C13 witness: the same NewAddress frame was applied twice to the empty map; the
\* map is what one application gives, and a removal on the absent interface 3 would
\* find nothing.
C13_Witness ==
    /\ platform = "linux"
    /\ FromEmpty
    /\ pc = "select"
    /\ applied = <<InnerMessage("NewAddress", addr4(2)),
                   InnerMessage("NewAddress", addr4(2))>>
    /\ state = add_address(Interfaces_new, <<2, IpV4(1)>>)
    /\ 3 \notin DOMAIN state

\* the NewLink and DelLink frames whose flags carry IFF_LOOPBACK
LoopbackLinkFrames == {f \in LinkFrames : parse_link(f.body.msg)[2]}

\* C14: applied to any reachable map, a NewLink or DelLink frame flagged as loopback
\* leaves the verdict of the map unchanged.
C14_LoopbackLinkKeepsVerdict ==
    platform = "linux" =>
        \A f \in LoopbackLinkFrames :
            Interfaces_connectivity(apply_message(state, f)) =
                Interfaces_connectivity(state)

\* interface 1 was announced, in the links dump or by a NewLink frame, and every
\* announcement of it carried IFF_LOOPBACK
Key1IsLoopback ==
    /\ \A i \in 1..Len(kernel.links) :
          kernel.links[i].index = 1 => parse_link(kernel.links[i])[2]
    /\ \A i \in 1..Len(applied) :
          (applied[i].payload = "InnerMessage" /\ applied[i].body.variant = "NewLink"
             /\ applied[i].body.msg.index = 1) => parse_link(applied[i].body.msg)[2]
    /\ \/ \E i \in 1..Len(kernel.links) : kernel.links[i].index = 1
       \/ \E i \in 1..Len(applied) :
             /\ applied[i].payload = "InnerMessage"
             /\ applied[i].body.variant = "NewLink"
             /\ applied[i].body.msg.index = 1

\* C15: the map never holds an entry for an interface announced as loopback.
C15_NoLoopbackEntry ==
    (platform = "linux" /\ Key1IsLoopback) => 1 \notin DOMAIN state

\* the frames of the feed that refer to interface 1
Key1Frames ==
    { InnerMessage("NewLink", lo), InnerMessage("DelLink", lo),
      InnerMessage("NewAddress", addr4(1)), InnerMessage("NewRoute", route4(1)) }

\* no announcement of interface 1, in the dump or on the feed, lacked IFF_LOOPBACK
Key1OnlyLoopback ==
    /\ \A i \in 1..Len(kernel.links) :
          kernel.links[i].index = 1 => parse_link(kernel.links[i])[2]
    /\ \A i \in 1..Len(applied) :
          (applied[i].payload = "InnerMessage" /\ applied[i].body.variant = "NewLink"
             /\ applied[i].body.msg.index = 1) => parse_link(applied[i].body.msg)[2]

\* C16: while interface 1 has only been announced as loopback, an entry for it never
\* has carrier, no link, address or route frame on it changes the verdict, and a
\* run that applied only such frames has published the initial verdict and nothing
\* else.
C16_LoopbackKeyNeverEmits ==
    (platform = "linux" /\ Key1OnlyLoopback) =>
        /\ 1 \in DOMAIN state => ~state[1].up
        /\ pc = "select" =>
              \A f \in Key1Frames :
                  ~diff_assign(connectivity,
                               Interfaces_connectivity(apply_message(state, f)))[1]
        /\ (pc = "select" /\ \A i \in 1..Len(applied) : applied[i] \in Key1Frames) =>
              sent = <<Interfaces_connectivity(SnapshotState(kernel))>>

\* C16 witness: after NewLink lo was ignored, an address and a route frame on
\* interface 1 created its entry; nothing but the initial verdict was published.
C16_Witness ==
    /\ platform = "linux"
    /\ pc = "select"
    /\ lo \in {kernel.links[i] : i \in 1..Len(kernel.links)}
    /\ applied = <<InnerMessage("NewAddress", addr4(1)),
                   InnerMessage("NewRoute", route4(1))>>
    /\ state[1].v4a # {} /\ state[1].v4g # {}
    /\ Len(sent) = 1

\* the message carries an Address attribute
CarriesAddress(msg) == \E i \in 1..Len(msg.nlas) : msg.nlas[i][1] = "Address"

\* PERMANENT is set in the header flags or in the Flags attribute
PermanentSet(msg) ==
    \/ "IFA_F_PERMANENT" \in msg.flags
    \/ \E i \in 1..Len(msg.nlas) :
          msg.nlas[i][1] = "Flags" /\ "IFA_F_PERMANENT" \in msg.nlas[i][2]

\* C17: on every reachable map, an address frame with PERMANENT set in the header
\* flags or in the Flags attribute, or without an Address attribute, leaves the map
\* unchanged and causes no publication; an address frame that changes the map
\* carries an Address attribute and has PERMANENT clear in both places.
C17_PermanentAddressIgnored ==
    (platform = "linux" /\ Quiescent) =>
        \A f \in AddressFrames :
            LET after == apply_message(state, f)
            IN  /\ (PermanentSet(f.body.msg) \/ ~CarriesAddress(f.body.msg)) =>
                      /\ after = state
                      /\ pc = "select" =>
                            ~diff_assign(connectivity, Interfaces_connectivity(after))[1]
                /\ after # state =>
                      (CarriesAddress(f.body.msg) /\ ~PermanentSet(f.body.msg))

\* C17 witness: two NewAddress frames for interface 2, one with PERMANENT in the
\* header and one with PERMANENT in the Flags attribute, were applied to the empty
\* map; the map is still empty and only the initial verdict was published.
C17_Witness ==
    /\ platform = "linux"
    /\ pc = "select"
    /\ applied = <<InnerMessage("NewAddress", addr4permHdr(2)),
                   InnerMessage("NewAddress", addr4permNla(2))>>
    /\ state = Interfaces_new
    /\ Len(sent) = 1

\* the tables t without the unicast address rows of infinite lifetime
WithoutInfinite(t) ==
    LET Finite(row) == row.ValidLifetime # "infinite"
    IN  [t EXCEPT !.addresses = SelectSeq(t.addresses, Finite)]

\* C18: the verdict new() derives from the tables is the verdict of the tables with
\* every address row of ValidLifetime 0xFFFFFFFF left out.
C18_InfiniteLifetimeSkipped ==
    (platform = "windows" /\ ctor \in {"send_initial", "register", "ok"}) =>
        stored = connectivity_from_system(WithoutInfinite(tables))

\* the dumps k / the tables t without the routes that are not default routes
DefaultRoutesOnly(k) ==
    LET IsDefault(route) == route.destination_prefix_length = 0
    IN  [k EXCEPT !.routes4 = SelectSeq(k.routes4, IsDefault),
                  !.routes6 = SelectSeq(k.routes6, IsDefault)]
WinDefaultRoutesOnly(t) ==
    LET IsDefault(route) == route.PrefixLength = 0 /\ route.prefix_zero
    IN  [t EXCEPT !.routes = SelectSeq(t.routes, IsDefault)]

\* C19: a route whose destination prefix length is not 0, or whose prefix is not
\* all-zero, never reaches a gateway set: as a frame it leaves every reachable map
\* unchanged, as a row of the snapshot it leaves the snapshot what it is without the
\* row, and on Windows the verdict is that of the tables without such rows.
C19_OnlyDefaultRoutesCount ==
    /\ platform = "linux" =>
          /\ pc = "select" =>
                \A f \in RouteFrames :
                    f.body.msg.destination_prefix_length # 0 =>
                        apply_message(state, f) = state
          /\ pc = "send_initial" => state = SnapshotState(DefaultRoutesOnly(kernel))
    /\ (platform = "windows" /\ ctor \in {"send_initial", "register", "ok"}) =>
          stored = connectivity_from_system(WinDefaultRoutesOnly(tables))

\* maps s and t have the same entries with the same carrier flags
SameEntriesAndCarrier(s, t) ==
    /\ DOMAIN s = DOMAIN t
    /\ \A k \in DOMAIN s : s[k].up = t[k].up

\* C20: on every reachable map remove_address and remove_default_route keep every
\* entry and every carrier flag, also when the entry is left with empty sets, and a
\* frame that makes an entry disappear is a DelLink frame.
C20_OnlyRemoveLinkDeletes ==
    (platform = "linux" /\ Quiescent) =>
        /\ \A a \in AddressArgs :
              LET after == remove_address(state, a)
              IN  /\ SameEntriesAndCarrier(after, state)
                  /\ \A k \in DOMAIN state :
                        after[k].v4g = state[k].v4g /\ after[k].v6g = state[k].v6g
        /\ \A r \in RouteArgs :
              LET after == remove_default_route(state, r)
              IN  /\ SameEntriesAndCarrier(after, state)
                  /\ \A k \in DOMAIN state :
                        after[k].v4a = state[k].v4a /\ after[k].v6a = state[k].v6a
        /\ \A f \in StateFrames :
              ~(DOMAIN state \subseteq DOMAIN apply_message(state, f)) =>
                  f.body.variant = "DelLink"

\* C20 witness: the only address of interface 2 was removed; the entry is still
\* there, with carrier and with empty address and gateway sets.
C20_Witness ==
    /\ platform = "linux"
    /\ pc = "select"
    /\ applied = <<InnerMessage("DelAddress", addr4(2))>>
    /\ 2 \in DOMAIN state
    /\ state[2] = Interface_new(TRUE)

\* the four address and gateway sets of an entry
Sets(i) == <<i.v4a, i.v4g, i.v6a, i.v6g>>

\* the driver applied exactly a carrier loss and then a carrier return of interface 2
CarrierLossAndReturn ==
    /\ platform = "linux"
    /\ pc = "select"
    /\ applied = <<InnerMessage("NewLink", eth(2, FALSE)),
                   InnerMessage("NewLink", eth(2, TRUE))>>

\* C21: on every reachable map, add_link(key, false, carrier) on an existing
\* interface sets that interface's carrier flag and changes neither its address and
\* gateway sets nor any other interface; add_link with is_loopback = true returns
\* the map unchanged; a carrier loss followed by a carrier return on an interface
\* that had carrier gives back the same map, and in a run the verdict published
\* after the return is the one that stood before the loss.
C21_AddLinkOnlySetsCarrier ==
    platform = "linux" =>
        /\ Quiescent =>
              \A l \in LinkArgs :
                  LET after == add_link(state, l)
                  IN  /\ l[2] => after = state
                      /\ (~l[2] /\ l[1] \in DOMAIN state) =>
                            /\ DOMAIN after = DOMAIN state
                            /\ after[l[1]].up = l[3]
                            /\ Sets(after[l[1]]) = Sets(state[l[1]])
                            /\ \A k \in DOMAIN state \ {l[1]} : after[k] = state[k]
                            /\ state[l[1]].up =>
                                  add_link(add_link(state, <<l[1], FALSE, FALSE>>),
                                           <<l[1], FALSE, TRUE>>) = state
        /\ (CarrierLossAndReturn /\ 2 \in DOMAIN SnapshotState(kernel)
              /\ SnapshotState(kernel)[2].up) =>
              /\ state = SnapshotState(kernel)
              /\ connectivity = sent[1]

\* C21 witness: interface 2 had carrier, addresses and default routes of both
\* families; after the carrier loss and return the stream is {Internet, Internet},
\* {None, None}, {Internet, Internet} and no address or route frame was fed.
C21_Witness ==
    /\ CarrierLossAndReturn
    /\ sent = <<Connectivity(CsInternet, CsInternet), Connectivity(CsNone, CsNone),
                Connectivity(CsInternet, CsInternet)>>
    /\ state[2].v4a # {} /\ state[2].v6g # {}

\* C22: on every reachable map, an address or default-route event for a key without
\* an entry creates the entry with carrier false holding that address or gateway,
\* and for every key the event followed by add_link(k, false, c) gives the same map
\* as add_link(k, false, c) followed by the event.
C22_ArrivalOrderIrrelevant ==
    (platform = "linux" /\ Quiescent) =>
        /\ \A a \in AddressArgs :
              /\ a[1] \notin DOMAIN state =>
                    /\ DOMAIN add_address(state, a) = DOMAIN state \cup {a[1]}
                    /\ ~add_address(state, a)[a[1]].up
                    /\ HasAddress(add_address(state, a), a)
              /\ \A c \in BOOLEAN :
                    add_link(add_address(state, a), <<a[1], FALSE, c>>) =
                        add_address(add_link(state, <<a[1], FALSE, c>>), a)
        /\ \A r \in RouteArgs :
              /\ r[1] \notin DOMAIN state =>
                    /\ DOMAIN add_default_route(state, r) = DOMAIN state \cup {r[1]}
                    /\ ~add_default_route(state, r)[r[1]].up
                    /\ HasGateway(add_default_route(state, r), r)
              /\ \A c \in BOOLEAN :
                    add_link(add_default_route(state, r), <<r[1], FALSE, c>>) =
                        add_default_route(add_link(state, <<r[1], FALSE, c>>), r)

\* C22 witness: on the empty map the address of interface 2 arrived before its
\* link; the map is the one the opposite order gives and the verdict is
\* {Network, None}.
C22_Witness ==
    /\ platform = "linux"
    /\ FromEmpty
    /\ pc = "select"
    /\ applied = <<InnerMessage("NewAddress", addr4(2)),
                   InnerMessage("NewLink", eth(2, TRUE))>>
    /\ state = add_address(add_link(Interfaces_new, <<2, FALSE, TRUE>>), <<2, IpV4(1)>>)
    /\ sent = <<Connectivity(CsNone, CsNone), Connectivity(CsNetwork, CsNone)>>

\* C23: on every reachable map, remove_link(key) deletes exactly the entry of key,
\* with its addresses and gateways, and leaves every other entry as it was; a
\* following add_link(key, false, true) gives an entry with carrier and empty sets,
\* whose level is None in both families; a DelLink frame is applied as remove_link.
C23_RemoveLinkForgetsInterface ==
    (platform = "linux" /\ Quiescent) =>
        \A f \in LinkFrames :
            LET l == parse_link(f.body.msg)
                after == remove_link(state, l)
                again == add_link(after, <<l[1], FALSE, TRUE>>)
            IN  /\ DOMAIN after = DOMAIN state \ {l[1]}
                /\ \A k \in DOMAIN after : after[k] = state[k]
                /\ again[l[1]] = Interface_new(TRUE)
                /\ Interface_connectivity(again[l[1]]) = Connectivity(CsNone, CsNone)
                /\ \A k \in DOMAIN after : again[k] = state[k]
                /\ f.body.variant = "DelLink" => apply_message(state, f) = after

\* C23 witness: interface 2 had carrier, addresses and default routes of both
\* families; after DelLink and a NewLink with carrier its entry is empty and the
\* verdict is {None, None}.
C23_Witness ==
    /\ platform = "linux"
    /\ pc = "select"
    /\ SnapshotState(kernel) # Interfaces_new
    /\ Interfaces_connectivity(SnapshotState(kernel)) =
          Connectivity(CsInternet, CsInternet)
    /\ applied = <<InnerMessage("DelLink", eth(2, FALSE)),
                   InnerMessage("NewLink", eth(2, TRUE))>>
    /\ state[2] = Interface_new(TRUE)
    /\ connectivity = Connectivity(CsNone, CsNone)

\* the priorities the route frames carry
Priorities == {r[3] : r \in RouteArgs}

\* the gateway entries of the family of route r on its interface
GatewaysOf(s, r) == IF r[2].fam = "V4" THEN s[r[1]].v4g ELSE s[r[1]].v6g
\* the level of the family of route r
LevelOf(s, r) ==
    IF r[2].fam = "V4" THEN Interfaces_connectivity(s).ipv4
    ELSE Interfaces_connectivity(s).ipv6

\* C24: on every reachable map, adding a default route via the same gateway with
\* two different priorities leaves two entries; removing the first priority removes
\* that entry only, and while the other entry remains on an interface with carrier
\* and an address of the family the level of the family is Internet; a remove whose
\* priority matches no entry returns the map unchanged.
C24_GatewayIdentityIsPair ==
    (platform = "linux" /\ Quiescent) =>
        \A r \in RouteArgs : \A p2 \in Priorities \ {r[3]} :
            LET r2 == <<r[1], r[2], p2>>
                both == add_default_route(add_default_route(state, r), r2)
                rest == remove_default_route(both, r)
                k == r[1]
            IN  /\ {<<r[2].a, r[3]>>, <<r[2].a, p2>>} \subseteq GatewaysOf(both, r)
                /\ GatewaysOf(rest, r) = GatewaysOf(both, r) \ {<<r[2].a, r[3]>>}
                /\ HasGateway(rest, r2)
                /\ DOMAIN rest = DOMAIN both
                /\ \A j \in DOMAIN both \ {k} : rest[j] = both[j]
                /\ \A fld \in {"up", "v4a", "v6a"} : rest[k][fld] = both[k][fld]
                /\ r[2].fam = "V4" => rest[k].v6g = both[k].v6g
                /\ r[2].fam = "V6" => rest[k].v4g = both[k].v4g
                /\ (rest[k].up /\ (IF r[2].fam = "V4" THEN rest[k].v4a
                                    ELSE rest[k].v6a) # {}) =>
                        LevelOf(rest, r) = CsInternet
                /\ ~HasGateway(state, r) => remove_default_route(state, r) = state

\* C24 witness: interface 2 had carrier, a v4 address and the default route with
\* priority 100; the same gateway was announced with priority 200 and the entry
\* with priority 100 removed; one entry remains, the v4 level is still Internet and
\* nothing was published after the initial verdict.
C24_Witness ==
    /\ platform = "linux"
    /\ pc = "select"
    /\ applied = <<InnerMessage("NewRoute", route4metric(2)),
                   InnerMessage("DelRoute", route4(2))>>
    /\ 2 \in DOMAIN SnapshotState(kernel)
    /\ SnapshotState(kernel)[2].v4g = {<<9, 100>>}
    /\ state[2].v4g = {<<9, 200>>}
    /\ connectivity.ipv4 = CsInternet
    /\ Len(sent) = 1

\* link, address and route frame announce, in this order, one interface coming up
IsBringUp(l, a, r) ==
    /\ l.body.variant = "NewLink" /\ a.body.variant = "NewAddress"
    /\ r.body.variant = "NewRoute"
    /\ parse_link(l.body.msg) = <<parse_link(l.body.msg)[1], FALSE, TRUE>>
    /\ Unwrap(parse_address(a.body.msg))[1] = parse_link(l.body.msg)[1]
    /\ Unwrap(parse_address(a.body.msg))[2].fam = "V4"
    /\ Unwrap(parse_default_route(r.body.msg))[1] = parse_link(l.body.msg)[1]
    /\ Unwrap(parse_default_route(r.body.msg))[2].fam = "V4"

\* the frames applied so far are the first frames of a bring-up of one interface
BringUpPrefix ==
    \E l \in ScenarioFrames, a \in ScenarioFrames, r \in ScenarioFrames :
        /\ IsBringUp(l, a, r)
        /\ IsPrefix(applied, <<l, a, r>>)

\* C25: from the empty shadow with {None, None} published, for every interface of
\* the alphabet and each of its v4 addresses and v4 default routes: after
\* add_link(key, false, true) nothing more is published, after the following
\* add_address the stream is {None, None}, {Network, None}, and after the following
\* add_default_route it is {None, None}, {Network, None}, {Internet, None}.
C25_BringUpStream ==
    (pc = "select" /\ Quiescent /\ BringUpPrefix) =>
        sent = SubSeq(<<Connectivity(CsNone, CsNone), Connectivity(CsNetwork, CsNone),
                        Connectivity(CsInternet, CsNone)>>,
                      1, IF Len(applied) <= 1 THEN 1 ELSE Len(applied))

\* C25 witness: link, address and default route of interface 3 were applied to the
\* empty shadow and three verdicts were published in all.
C25_Witness ==
    /\ pc = "select"
    /\ applied = <<InnerMessage("NewLink", eth(3, TRUE)),
                   InnerMessage("NewAddress", addr4(3)),
                   InnerMessage("NewRoute", route4(3))>>
    /\ sent = <<Connectivity(CsNone, CsNone), Connectivity(CsNetwork, CsNone),
                Connectivity(CsInternet, CsNone)>>

\* the level of the family that ip does not belong to
OtherLevel(s, ip) ==
    IF ip.fam = "V4" THEN Interfaces_connectivity(s).ipv6
    ELSE Interfaces_connectivity(s).ipv4

\* C26: on every reachable map, adding or removing an address or a default route
\* of one family leaves the level of the other family as it was; and from
\* {Internet, Internet} with one interface, removing its only v6 default route
\* gives {Internet, Network}.
C26_FamiliesIndependent ==
    platform = "linux" =>
        /\ Quiescent =>
              /\ \A a \in AddressArgs :
                    /\ OtherLevel(add_address(state, a), a[2]) = OtherLevel(state, a[2])
                    /\ OtherLevel(remove_address(state, a), a[2]) =
                          OtherLevel(state, a[2])
              /\ \A r \in RouteArgs :
                    /\ OtherLevel(add_default_route(state, r), r[2]) =
                          OtherLevel(state, r[2])
                    /\ OtherLevel(remove_default_route(state, r), r[2]) =
                          OtherLevel(state, r[2])
        /\ (/\ pc = "select"
            /\ applied = <<InnerMessage("DelRoute", route6(2))>>
            /\ sent[1] = Connectivity(CsInternet, CsInternet)
            /\ DOMAIN SnapshotState(kernel) = {2}
            /\ SnapshotState(kernel)[2].v6g = {<<9, 100>>}) =>
              /\ connectivity = Connectivity(CsInternet, CsNetwork)
              /\ sent = <<Connectivity(CsInternet, CsInternet),
                          Connectivity(CsInternet, CsNetwork)>>

\* C26 witness: the only interface had carrier, addresses and one default route of
\* each family; its v6 default route was removed and {Internet, Network} published.
C26_Witness ==
    /\ platform = "linux"
    /\ pc = "select"
    /\ DOMAIN state = {2}
    /\ applied = <<InnerMessage("DelRoute", route6(2))>>
    /\ state[2].v6g = {} /\ state[2].v4g # {}
    /\ sent = <<Connectivity(CsInternet, CsInternet),
                Connectivity(CsInternet, CsNetwork)>>

\* C27: on Windows the step in which a change callback fails to re-read the tables
\* leaves the stored verdict and the channel as they were, keeps the notification
\* registered, releases the state mutex and returns with the error to be logged;
\* and at all times after the initial publication the stored verdict, against which
\* a later callback compares, is the verdict that was published last.
C27_CallbackReadFailureOnlyLogged ==
    /\ []((platform = "windows" /\ ctor \in {"register", "ok"}) =>
            (sent # << >> /\ stored = sent[Len(sent)]))
    /\ [][\A t \in Threads :
            (cb[t].pc = "read" /\ cb'[t].res = "tables") =>
                /\ cb'[t].pc = "returned"
                /\ stored' = stored
                /\ sent' = sent /\ chan' = chan
                /\ registered' = registered
                /\ stateLock' = 0]_vars

\* C27 witness: the first callback failed to read the tables and returned; the
\* tables have changed since the last publication, and the second callback now
\* holds a verdict that differs from the stored one, which is still the one
\* published last.
C27_Witness ==
    /\ platform = "windows"
    /\ registered
    /\ cb[1].pc = "returned" /\ cb[1].res = "tables"
    /\ cb[2].pc = "compare"
    /\ cb[2].new # stored
    /\ stored = sent[Len(sent)]
    /\ Len(sent) = 1

\* C28: on Windows a step of a change callback invocation, which runs on a thread
\* of the OS, never writes the stored verdict and never puts a verdict on the
\* channel: comparison and publication are left to the driver task.
C28_CallbackOnlyWakesDriver ==
    [][(\E t \in Threads : cb[t].pc # "idle" /\ cb'[t] # cb[t]) =>
            (stored' = stored /\ sent' = sent /\ chan' = chan)]_vars

\* the positions of a callback invocation inside handle_connectivity_changed
InHandler == {"lock_state", "read", "compare", "lock_tx", "send"}

\* C29: on Windows the SenderState block behind the callback's user context is
\* allocated whenever a change callback invocation is inside its handler, whatever
\* way the driver future ended, and no invocation has ever run against a freed
\* block.
C29_BlockOutlivesCallbacks ==
    platform = "windows" =>
        \A t \in Threads :
            /\ cb[t].pc \in InHandler => txAlive
            /\ cb[t].res # "freed"

\* the next step of callback invocation t inside handle_connectivity_changed
CallbackStep(t) ==
    \/ hcc_lock_state(t)
    \/ hcc_read(t)
    \/ hcc_compare(t)
    \/ hcc_lock_tx(t)
    \/ hcc_publish(t)

\* C30: on Windows the driver task never owns the state mutex and owns the sender
\* mutex only between its lock and the end of the clone statement, never while it
\* is suspended in closed().await; a callback owns the sender mutex only while it
\* owns the state mutex; and whenever callback invocations are inside the handler,
\* one of them can take its next step, or the driver is about to release the sender
\* mutex: callbacks, constructor and driver never block each other for good.
\* (The mutexes exist while the SenderState is allocated.)
C30_NoMutexAcrossSuspension ==
    (platform = "windows" /\ txAlive) =>
        /\ stateLock # DriverOwner
        /\ txLock = DriverOwner <=> pc = "clone"
        /\ pc = "wait_closed" => txLock # DriverOwner
        /\ \A t \in Threads : txLock = t => (stateLock = t /\ cb[t].pc = "send")
        /\ \A t \in Threads : stateLock = t <=> cb[t].pc \in InHandler \ {"lock_state"}
        /\ (\E t \in Threads : cb[t].pc \in InHandler) =>
              \/ \E t \in Threads : ENABLED CallbackStep(t)
              \/ pc = "clone" /\ ENABLED win_driver_clone
        /\ (pc = "wait_closed" /\ \E t \in Threads : cb[t].pc \in InHandler) =>
              \E t \in Threads : ENABLED CallbackStep(t)

\* C30 witness: the driver is suspended in closed().await with the receiver held;
\* callback 1 owns both mutexes and is about to send, callback 2 waits for the
\* state mutex.
C30_Witness ==
    /\ platform = "windows"
    /\ pc = "wait_closed"
    /\ rx = "open"
    /\ cb[1].pc = "send" /\ stateLock = 1 /\ txLock = 1
    /\ cb[2].pc = "lock_state"

\* C31: the driver's select is biased towards the consumer-closed notification:
\* when the receiver is already closed and a frame is queued at the moment the
\* driver polls, the driver terminates with Ok, the frame stays unapplied and
\* nothing is published.
C31_ClosedWinsOverEvent ==
    [][(/\ platform = "linux"
        /\ pc = "select"
        /\ ~CanSend
        /\ messages # << >>
        /\ pc' # pc)
       => (/\ pc' = "done"
           /\ result' = Ok
           /\ messages' = messages
           /\ cur' = NoneOpt
           /\ state' = state
           /\ applied' = applied
           /\ sent' = sent
           /\ chan' = chan)]_vars

\* C31 witness: the driver has ended with Ok after the initial verdict, the
\* receiver was dropped and a frame is still queued, never applied.
C31_Witness ==
    /\ platform = "linux"
    /\ pc = "done"
    /\ result = Ok
    /\ rx = "dropped"
    /\ sent # << >>
    /\ messages # << >>
    /\ Len(applied) + Len(messages) = Len(arrived)

\* the attribute kinds a route message carries, and the value of one of them
Carries(m, kind) == \E i \in 1..Len(m.nlas) : m.nlas[i][1] = kind
AttrValue(m, kind) == m.nlas[CHOOSE i \in 1..Len(m.nlas) : m.nlas[i][1] = kind][2]

\* the mutation a route message stands for: with all three of Oif, Gateway and
\* Priority the route (oif, gateway in the header's family, priority), added or
\* removed; nothing otherwise
RouteMutation(s, variant, m) ==
    IF Carries(m, "Oif") /\ Carries(m, "Gateway") /\ Carries(m, "Priority")
    THEN LET gw == IF m.address_family = "AF_INET" THEN IpV4(AttrValue(m, "Gateway").id)
                   ELSE IpV6(AttrValue(m, "Gateway").id)
             r == <<AttrValue(m, "Oif"), gw, AttrValue(m, "Priority")>>
         IN  IF variant = "NewRoute" THEN add_default_route(s, r)
             ELSE remove_default_route(s, r)
    ELSE s

RECURSIVE RouteMutations(_, _)
RouteMutations(s, rows) ==
    IF rows = << >> THEN s
    ELSE RouteMutations(RouteMutation(s, "NewRoute", Head(rows)), Tail(rows))

IsRouteFrame(f) ==
    f.payload = "InnerMessage" /\ f.body.variant \in {"NewRoute", "DelRoute"}

\* C32: a NewRoute or DelRoute frame, and each row of the two route dumps, becomes
\* an add_default_route / remove_default_route of (oif, gateway, priority) in the
\* header's family exactly when it carries all three attributes; a message that
\* lacks one of them leaves the Interfaces map as it was.
C32_RouteNeedsThreeAttributes ==
    [][/\ (pc = "handle" /\ cur # NoneOpt /\ IsRouteFrame(Unwrap(cur)))
          => state' = RouteMutation(state, Unwrap(cur).body.variant,
                                    Unwrap(cur).body.msg)
       /\ (pc = "get_routes_v4" /\ pc' = "get_routes_v6")
          => state' = RouteMutations(state, kernel.routes4)
       /\ (pc = "get_routes_v6" /\ pc' = "send_initial")
          => state' = RouteMutations(state, kernel.routes6)]_vars

\* C32 witness: the dump held routes with and without all three attributes, and
\* the driver has applied a frame without a gateway, one without a priority and
\* then a complete DelRoute; the shadow holds no v4 gateway and the v6 gateway of
\* the one complete v6 row.
C32_Witness ==
    /\ platform = "linux"
    /\ kernel.routes4 = <<route4nogw(2), route4(2), route4noprio(2)>>
    /\ applied = << InnerMessage("NewRoute", route4nogw(2)),
                    InnerMessage("NewRoute", route4noprio(2)),
                    InnerMessage("DelRoute", route4(2)) >>
    /\ pc = "select"
    /\ sent = << Connectivity(CsInternet, CsInternet),
                 Connectivity(CsNetwork, CsInternet) >>

\* a frame of neither of the six handled variants nor an Error or Overrun payload
IsIgnoredFrame(f) ==
    IF f.payload = "InnerMessage"
    THEN f.body.variant \notin {"NewLink", "DelLink", "NewAddress", "DelAddress",
                                "NewRoute", "DelRoute"}
    ELSE f.payload \notin {"Error", "Overrun"}

\* C33: when the driver handles an inner message of another variant, or a payload
\* other than Error, Overrun and InnerMessage, the Interfaces map and the last
\* verdict stay as they were, nothing is published and the driver goes back to
\* its select.
C33_UnknownFrameIgnored ==
    [][(/\ platform = "linux"
        /\ pc = "handle"
        /\ cur # NoneOpt
        /\ IsIgnoredFrame(Unwrap(cur))
        /\ cur' = NoneOpt)
       => (/\ state' = state
           /\ connectivity' = connectivity
           /\ sent' = sent
           /\ pc' = "select"
           /\ result' = Pending
           /\ txAlive' = txAlive)]_vars

\* C33 witness: a Done payload and a NewNeighbour message have been handled; the
\* driver waits again, the shadow is the one of the snapshot and only the initial
\* verdict was published.
C33_Witness ==
    /\ platform = "linux"
    /\ applied = <<OtherFrame, InnerMessage("NewNeighbour", "none")>>
    /\ pc = "select"
    /\ result = Pending
    /\ state = SnapshotState(kernel)
    /\ state # Interfaces_new
    /\ Len(sent) = 1

\* the Interfaces map the state model builds from the Windows tables when the
\* interface rows `rows` are normalised as add_link(index, Type = loopback,
\* OperStatus = Up), the address rows as add_address and the default routes as
\* add_default_route
RECURSIVE WinLinks(_, _)
WinLinks(s, rows) ==
    IF rows = << >> THEN s
    ELSE WinLinks(add_link(s, <<Head(rows).InterfaceIndex,
                                Head(rows).Type = "IF_TYPE_SOFTWARE_LOOPBACK",
                                Head(rows).OperStatus = "IfOperStatusUp">>),
                  Tail(rows))
RECURSIVE WinAddresses(_, _)
WinAddresses(s, rows) ==
    IF rows = << >> THEN s
    ELSE WinAddresses(add_address(s, <<Head(rows).InterfaceIndex,
                                       IF Head(rows).family = "AF_INET" THEN IpV4(1)
                                       ELSE IpV6(1)>>),
                      Tail(rows))
RECURSIVE WinRoutes(_, _)
WinRoutes(s, rows) ==
    IF rows = << >> THEN s
    ELSE WinRoutes(add_default_route(s, <<Head(rows).InterfaceIndex,
                                          IF Head(rows).NextHop = "AF_INET" THEN IpV4(9)
                                          ELSE IpV6(9), 0>>),
                   Tail(rows))
WinShadow(rows, t) ==
    WinRoutes(WinAddresses(WinLinks(Interfaces_new, rows), t.addresses),
              WinDefaultRoutesOnly(t).routes)

HardwareRows(t) ==
    LET IsHardware(row) == row.hardware
    IN  SelectSeq(t.interfaces, IsHardware)

WinSnapshotTaken == platform = "windows" /\ ctor \in {"send_initial", "register", "ok"}

\* C34: the verdict new() derives from the tables is the verdict of the state
\* model after add_link(index, Type = loopback, OperStatus = Up) for every
\* interface row: the hardware bit of a row plays no part.
C34_EveryRowNormalised ==
    WinSnapshotTaken => stored = Interfaces_connectivity(WinShadow(tables.interfaces, tables))

\* C34, as the code has it: the verdict new() derives from the tables is the
\* verdict of the state model after add_link(index, Type = loopback,
\* OperStatus = Up) for every interface row whose hardware bit is set; a row
\* without the bit contributes nothing whatever its type, status, addresses and
\* routes.
C34_HardwareRowsNormalised ==
    WinSnapshotTaken => stored = Interfaces_connectivity(WinShadow(HardwareRows(tables), tables))

\* C34 witness: a non-hardware wireless interface that is up, with a v4 address and
\* a v4 default route, and a verdict of {None, None}.
C34_Witness ==
    /\ WinSnapshotTaken
    /\ tables.interfaces =
          <<WinLoopback, IfRow(3, FALSE, "IF_TYPE_IEEE80211", "IfOperStatusUp")>>
    /\ tables.addresses # << >>
    /\ tables.routes # << >>
    /\ stored = Connectivity(CsNone, CsNone)

\* C35: whenever the Linux driver waits in its select, after the initial
\* publication, the verdict sent last is the verdict of the current Interfaces map
\* (and the value of the local `connectivity`).
C35_LastSentIsShadowVerdict ==
    (platform = "linux" /\ pc = "select") =>
        /\ sent # << >>
        /\ sent[Len(sent)] = Interfaces_connectivity(state)
        /\ connectivity = Interfaces_connectivity(state)

\* C35 witness: the driver waits after two frames that each changed the verdict;
\* three verdicts were sent and the last one is that of the shadow.
C35_Witness ==
    /\ platform = "linux"
    /\ pc = "select"
    /\ Len(applied) = 2
    /\ Len(sent) = 3
    /\ sent[3] # sent[1]
    /\ sent[3] = Interfaces_connectivity(state)

\* the frames the driver has taken from the queue or still has to take
Taken == applied \o (IF cur = NoneOpt THEN << >> ELSE <<Unwrap(cur)>>)

\* the kernel has no route with a gateway other than default routes
OnlyDefaultRoutes ==
    /\ \A j \in 1..Len(kernel.routes4) : kernel.routes4[j].destination_prefix_length = 0
    /\ \A j \in 1..Len(kernel.routes6) : kernel.routes6[j].destination_prefix_length = 0

\* the snapshot is requested with every group joined; the frames of the changes
\* made meanwhile wait in the queue and are taken in arrival order
MergeKeepsOrder ==
    /\ pc # "unstarted" => joined = Len(groups)
    /\ Taken \o messages = arrived
    /\ pc \in BeforeInitialSend => applied = << >>

\* the driver waits with an empty queue: every change so far has been applied
Drained == platform = "linux" /\ pc = "select" /\ messages = << >>

\* C36: the groups are joined before the first dump request, every change made
\* while the dumps are read is queued and applied afterwards in arrival order, and
\* whenever the driver waits with an empty queue the verdict of the shadow, and
\* the verdict published last, is the verdict of the kernel's links,
\* non-permanent addresses and default routes.
C36_MergeLosesNothing ==
    /\ MergeKeepsOrder
    /\ Drained =>
          /\ Interfaces_connectivity(state) = KernelVerdict(kernel)
          /\ sent[Len(sent)] = KernelVerdict(kernel)

\* The same while the kernel has only default routes.
MergeLosesNothingDefaultRoutes ==
    /\ MergeKeepsOrder
    /\ (Drained /\ OnlyDefaultRoutes) =>
          /\ Interfaces_connectivity(state) = KernelVerdict(kernel)
          /\ sent[Len(sent)] = KernelVerdict(kernel)

\* neither the kernel nor the feed has ever held a route that is not a default
\* route
OnlyDefaultRoutesEver ==
    /\ OnlyDefaultRoutes
    /\ \A i \in 1..Len(arrived) :
          IsRouteFrame(arrived[i]) => arrived[i].body.msg.destination_prefix_length = 0

\* C37: every verdict the driver publishes is the verdict of a configuration the
\* kernel has had since new() was called (stated for the runs in which every
\* route of the kernel is a default route).
C37_PublishedVerdictExisted ==
    (platform = "linux" /\ OnlyDefaultRoutesEver /\ sent # << >>) =>
        sent[Len(sent)] \in kernelHad

\* new() has returned the pair, every callback the OS has started has returned
\* without an error, and the consumer still holds the receiver
TablesSettled ==
    /\ platform = "windows"
    /\ ctor = "ok"
    /\ rx = "open"
    /\ \A t \in Threads : cb[t].pc \in {"idle", "returned"} /\ cb[t].res = "none"

\* C38: on Windows, whenever every notification delivered so far has been handled,
\* the verdict published last is the verdict of the tables as they are now, also
\* when the tables changed between the constructor's read and the registration
\* of the callback.
C38_SettledVerdictIsCurrent ==
    TablesSettled =>
        /\ sent # << >>
        /\ sent[Len(sent)] = connectivity_from_system(tables)
        /\ stored = connectivity_from_system(tables)

\* The same once a notification has been delivered: a callback that starts after
\* the last change reads the tables as they are.
SettledVerdictAfterNotification ==
    (TablesSettled /\ notified > 0) =>
        /\ sent[Len(sent)] = connectivity_from_system(tables)
        /\ stored = connectivity_from_system(tables)

\* positions of handle_connectivity_changed between the table read and the store
ReadToStore == {"read", "compare", "lock_tx", "send"}

\* C39: the callbacks run their read-tables / compare / send / store sequence one
\* at a time: at most one invocation is between its read and its store, it owns
\* the state mutex, and the verdict it is about to send differs from the stored
\* one; so the stored verdict is the verdict sent last, the verdicts are sent in
\* the order in which the tables were read, and no verdict is sent twice in a row.
C39_CallbacksAtomic ==
    (platform = "windows" /\ ctor = "ok") =>
        /\ stored = sent[Len(sent)]
        /\ \A i \in 1..(Len(sent) - 1) : sent[i] # sent[i + 1]
        /\ \A t, u \in Threads :
              (cb[t].pc \in ReadToStore /\ cb[u].pc \in ReadToStore) => t = u
        /\ \A t \in Threads :
              /\ cb[t].pc \in ReadToStore => stateLock = t
              /\ cb[t].pc \in {"lock_tx", "send"} => cb[t].new # stored

\* C39 witness: the second invocation has overtaken the first one: it owns the
\* state mutex and is about to send a changed verdict while the first one still
\* waits for the mutex.
C39_Witness ==
    /\ platform = "windows"
    /\ ctor = "ok"
    /\ rx = "open"
    /\ cb[2].pc = "send" /\ stateLock = 2
    /\ cb[1].pc = "lock_state"
    /\ cb[2].new # sent[Len(sent)]

\* the verdict of lib.rs reports a family exactly when state.rs has it at Internet
VerdictsAgree(legacy, current) ==
    /\ (legacy \in {"IpV4", "All"}) <=> (current.ipv4 = CsInternet)
    /\ (legacy \in {"IpV6", "All"}) <=> (current.ipv6 = CsInternet)

\* state/mod.rs and state.rs compute the same level from (up, addresses, gateways)
LevelsAgree ==
    /\ \A up \in BOOLEAN : \A addresses \in SUBSET {1, 2} :
          \A gateways \in SUBSET {<<9, 100>>, <<9, 200>>} :
              IpState_connectivity_state(addresses, gateways, up) =
                  connectivity_state(addresses, gateways, up)
    /\ \A k \in DOMAIN state :
          /\ IpState_connectivity_state(state[k].v4a, state[k].v4g, state[k].up) =
                connectivity_state(state[k].v4a, state[k].v4g, state[k].up)
          /\ IpState_connectivity_state(state[k].v6a, state[k].v6g, state[k].up) =
                connectivity_state(state[k].v6a, state[k].v6g, state[k].up)

\* C40: after the same dumps and the same frames, the verdict of lib.rs reports
\* IPv4 (IpV4 or All) exactly when the verdict of state.rs has ipv4 = Internet and
\* IPv6 (IpV6 or All) exactly when it has ipv6 = Internet; and the level of
\* state/mod.rs equals the level of state.rs for every (up, addresses, gateways).
C40_IterationsAgree ==
    /\ VerdictsAgree(lib_internet_connectivity(libState), Interfaces_connectivity(state))
    /\ LevelsAgree

\* a DelLink frame whose flags carry IFF_LOOPBACK
IsLoopbackDelLink(f) ==
    /\ f.payload = "InnerMessage"
    /\ f.body.variant = "DelLink"
    /\ "IFF_LOOPBACK" \in f.body.msg.flags

\* the two iterations agree in every run in which no DelLink frame flagged as
\* loopback was applied
IterationsAgreeWithoutLoopbackRemoval ==
    (\A i \in 1..Len(applied) : ~IsLoopbackDelLink(applied[i])) =>
        /\ VerdictsAgree(lib_internet_connectivity(libState),
                         Interfaces_connectivity(state))
        /\ DOMAIN libState = DOMAIN state
        /\ \A k \in DOMAIN state : libState[k].up = state[k].up
        /\ LevelsAgree

====
